---------------------------- MODULE Spec2Model ----------------------------
(***************************************************************************)
(* Model of the builder-score aggregator of zo_builder_bot                 *)
(* (src/builder_score.py).                                                 *)
(*                                                                         *)
(* Numbers.  The source computes in IEEE doubles.  The model computes the  *)
(* same quantities exactly, in integers:                                   *)
(*   - a telegram subscore is kept in tenths (weights 0.1 and 1 become 1   *)
(*     and 10);                                                            *)
(*   - a normalized score is an exact fraction <<num, den>>;               *)
(*   - the overall weights 0.6, 0.3, 0.1 are kept in tenths (6, 3, 1);     *)
(*   - a builder_score, rounded to two decimals by the source, is kept in  *)
(*     hundredths (100.0 is 10000).                                        *)
(* Within the bounds of the model the double result of round(x, 2) is the  *)
(* nearest hundredth of the exact value whenever the exact value is not    *)
(* halfway between two hundredths.  At an exact half the double lies just  *)
(* above or just below, and the direction depends on the operands in a way *)
(* integer arithmetic does not determine: the model leaves it open (the    *)
(* parameter `up` of compute_builder_scores).                              *)
(***************************************************************************)
EXTENDS Integers, Sequences, FiniteSets

(***************************************************************************)
(* Module constants of src/builder_score.py.                               *)
(***************************************************************************)
TelegramScale == 10     \* telegram subscores are kept in tenths
WeightScale == 10       \* W_G, W_T, W_N are kept in tenths
ScoreScale == 100       \* "score * 100"
RoundScale == 100       \* "round(..., 2)": hundredths

GITHUB_WEIGHTS == [commits |-> 1, prs |-> 5, issues |-> 2]
TELEGRAM_WEIGHTS == [messages |-> 1, replies |-> 10]   \* 0.1 and 1, in tenths
NOMINATION_WEIGHT == 3
W_G == 6
W_T == 3
W_N == 1
NORMALIZATION_THRESHOLD == 5
MAX_EXPECTED_GITHUB == 50
MAX_EXPECTED_TELEGRAM == 200
MAX_EXPECTED_NOMINATIONS == 10

(***************************************************************************)
(* Python values.  A dict is a function on its keys; None is the value     *)
(* below (no dict of the model has the key py_none).                       *)
(***************************************************************************)
None == [py_none |-> 0]

\* dict.get(key, default)
Get(d, key, default) == IF key \in DOMAIN d THEN d[key] ELSE default

EmptyDict == [k \in {} |-> 0]


(***************************************************************************)
(* The input records.  A record is a dict: a field the record lacks is a   *)
(* key outside its domain.  UserRecords are the records the input lists    *)
(* are drawn from:                                                         *)
(*   Fresh      as get_or_create_user stores a new user (all counts 0);    *)
(*   Bare       user_id and username only;                                 *)
(*   Coder      github activity past MAX_EXPECTED_GITHUB, with a key the   *)
(*              weight table lacks;                                        *)
(*   Chatter    telegram activity with an odd message count (its absolute  *)
(*              score is an exact half of a hundredth);                    *)
(*   Nominee    enough nominations to pass MAX_EXPECTED_NOMINATIONS;       *)
(*   Mixed      activity in all three dimensions, partial dicts;           *)
(*   Debtor     a negative count (not a valid input);                      *)
(* and the malformed records: no user_id, no username, a dict that is      *)
(* present but None.                                                       *)
(***************************************************************************)
Fresh ==
    [user_id |-> 1, username |-> "fresh",
     github_contributions |-> [commits |-> 0, prs |-> 0, issues |-> 0],
     telegram_activity |-> [messages |-> 0, replies |-> 0],
     nominations_received |-> 0]

Bare == [user_id |-> 2, username |-> "bare"]

Coder ==
    [user_id |-> 3, username |-> "coder",
     github_contributions |-> [commits |-> 10, prs |-> 15, issues |-> 5, reviews |-> 4],
     telegram_activity |-> [messages |-> 0, replies |-> 0],
     nominations_received |-> 0]

Chatter ==
    [user_id |-> 4, username |-> "chatter",
     github_contributions |-> [commits |-> 0, prs |-> 0, issues |-> 0],
     telegram_activity |-> [messages |-> 3, replies |-> 1],
     nominations_received |-> 1]

Nominee ==
    [user_id |-> 5, username |-> "nominee",
     github_contributions |-> [commits |-> 5, prs |-> 0, issues |-> 0],
     telegram_activity |-> [messages |-> 0, replies |-> 0],
     nominations_received |-> 4]

Mixed ==
    [user_id |-> 6, username |-> "mixed",
     github_contributions |-> [prs |-> 1],
     telegram_activity |-> [replies |-> 2],
     nominations_received |-> 2]

Debtor ==
    [user_id |-> 7, username |-> "debtor",
     github_contributions |-> [commits |-> 0, prs |-> 0, issues |-> 0],
     telegram_activity |-> [messages |-> 0, replies |-> 0],
     nominations_received |-> 0 - 1]

NoUserId ==
    [username |-> "anonymous",
     github_contributions |-> [commits |-> 1, prs |-> 0, issues |-> 0],
     telegram_activity |-> [messages |-> 0, replies |-> 0],
     nominations_received |-> 0]

NoUsername ==
    [user_id |-> 8,
     github_contributions |-> [commits |-> 0, prs |-> 0, issues |-> 0],
     telegram_activity |-> [messages |-> 2, replies |-> 0],
     nominations_received |-> 0]

NullGithub ==
    [user_id |-> 9, username |-> "nullmap",
     github_contributions |-> None,
     telegram_activity |-> [messages |-> 0, replies |-> 0],
     nominations_received |-> 0]

WellFormedRecords == {Fresh, Bare, Coder, Chatter, Nominee, Mixed, Debtor}
MalformedRecords == {NoUserId, NoUsername, NullGithub}
UserRecords == WellFormedRecords \cup MalformedRecords

\* The bounds of the input lists.
MaxUsers == 5
MaxMalformed == 1

(***************************************************************************)
(* The state: the caller's list, the module-level weight tables (the       *)
(* mutable objects of the module), and the locals and outcome of the last  *)
(* call of compute_builder_scores.                                         *)
(***************************************************************************)
VARIABLES
    user_data,            \* the list passed to compute_builder_scores
    module_weights,       \* [github |-> GITHUB_WEIGHTS, telegram |-> TELEGRAM_WEIGHTS]
    pc,                   \* "input", then "returned" or "raised"
    raised,               \* "none", "TypeError" or "KeyError"
    github_raw_scores,
    telegram_raw_scores,
    nomination_scores,
    github_norm,
    telegram_norm,
    nomination_norm,
    builder_scores,       \* the list built by the second loop, before sorting
    result,               \* the returned list
    users,                \* users_collection: the stored documents, in insertion order
    halves_up,            \* whether this run's doubles round an exact half up
    events,               \* how many handlers have run
    failures,             \* how many store operations have failed
    handler,              \* the last handler that ran, with the store operations it made
    procs,                \* per process, the handler in progress: its position and locals
    conversations,        \* ConversationHandler.conversations: the state of each private chat
    user_setup_state,     \* bot.py, line 33: {user_id: {'group_id': ..., 'step': ...}}
    group_message_cache   \* bot.py, line 36: {user_id: {'group_id': ..., 'message_id': ...}}

vars == <<user_data, module_weights, pc, raised, github_raw_scores,
          telegram_raw_scores, nomination_scores, github_norm, telegram_norm,
          nomination_norm, builder_scores, result,
          users, halves_up, events, failures, handler, procs,
          conversations, user_setup_state, group_message_cache>>

\* The variables of the store and its handlers.
store == <<users, halves_up, events, failures, handler, procs>>

\* The variables of the bot's profile-setup dialogue.
dialogue == <<conversations, user_setup_state, group_message_cache>>

locals == <<raised, github_raw_scores, telegram_raw_scores, nomination_scores,
            github_norm, telegram_norm, nomination_norm, builder_scores, result>>

(***************************************************************************)
(* Helpers on sequences and sets of integers.                              *)
(***************************************************************************)
SeqMin(s) == CHOOSE x \in {s[i] : i \in 1..Len(s)} : \A i \in 1..Len(s) : x <= s[i]
SeqMax(s) == CHOOSE x \in {s[i] : i \in 1..Len(s)} : \A i \in 1..Len(s) : x >= s[i]
SetMin(S) == CHOOSE x \in S : \A y \in S : x <= y

RECURSIVE SumOver(_, _)
\* sum(f[k] for k in keys)
SumOver(f, keys) ==
    IF keys = {} THEN 0
    ELSE LET k == CHOOSE x \in keys : TRUE
         IN f[k] + SumOver(f, keys \ {k})

(***************************************************************************)
(* compute_subscore: sum(contributions[k] * weights.get(k, 0)              *)
(*                       for k in contributions)                           *)
(* Iterating None raises TypeError: the caller tests Iterable first.       *)
(***************************************************************************)
Iterable(contributions) == contributions # None

\* compute_subscore with weights.get(k, 1): a key the table lacks counts once.
compute_subscore_default_one(contributions, weights) ==
    SumOver([k \in DOMAIN contributions |-> contributions[k] * Get(weights, k, 1)],
            DOMAIN contributions)

compute_subscore(contributions, weights) ==
    SumOver([k \in DOMAIN contributions |-> contributions[k] * Get(weights, k, 0)],
            DOMAIN contributions)

\* The three raw subscores of one record (the body of the first loop).
g_score(user) == compute_subscore(Get(user, "github_contributions", EmptyDict), module_weights.github)
t_score(user) == compute_subscore(Get(user, "telegram_activity", EmptyDict), module_weights.telegram)
\* n_score clamped to MAX_EXPECTED_NOMINATIONS: the raw subscore normalized
\* where it is computed.
n_score_capped(user) ==
    IF Get(user, "nominations_received", 0) * NOMINATION_WEIGHT > MAX_EXPECTED_NOMINATIONS
    THEN MAX_EXPECTED_NOMINATIONS
    ELSE Get(user, "nominations_received", 0) * NOMINATION_WEIGHT
\* n_score with the default of a missing nominations_received set to 1.
n_score_default_one(user) == Get(user, "nominations_received", 1) * NOMINATION_WEIGHT
n_score(user) == Get(user, "nominations_received", 0) * NOMINATION_WEIGHT

\* Whether the body of the first loop raises TypeError on this record.
RaisesTypeError(user) ==
    \/ ~Iterable(Get(user, "github_contributions", EmptyDict))
    \/ ~Iterable(Get(user, "telegram_activity", EmptyDict))

\* Whether the body of the second loop raises KeyError on this record.
RaisesKeyError(user) == "user_id" \notin DOMAIN user \/ "username" \notin DOMAIN user

One == <<1, 1>>

\* normalize_scores with a uniform list mapped to 0.0 instead of 1.0.
normalize_scores_uniform_zero(scores) ==
    IF scores = <<>> THEN <<>>
    ELSE LET min_score == SeqMin(scores)
             max_score == SeqMax(scores)
         IN IF max_score = min_score
            THEN [i \in 1..Len(scores) |-> <<0, 1>>]
            ELSE [i \in 1..Len(scores) |->
                    <<scores[i] - min_score, max_score - min_score>>]

\* normalize_scores with the empty list mapped to [1.0].
normalize_scores_pad(scores) ==
    IF scores = <<>> THEN <<One>>
    ELSE LET min_score == SeqMin(scores)
             max_score == SeqMax(scores)
         IN IF max_score = min_score
            THEN [i \in 1..Len(scores) |-> One]
            ELSE [i \in 1..Len(scores) |->
                    <<scores[i] - min_score, max_score - min_score>>]

\* normalize_scores without the subtraction of the minimum: s / (max - min).
normalize_scores_unshifted(scores) ==
    IF scores = <<>> THEN <<>>
    ELSE LET min_score == SeqMin(scores)
             max_score == SeqMax(scores)
         IN IF max_score = min_score
            THEN [i \in 1..Len(scores) |-> One]
            ELSE [i \in 1..Len(scores) |-> <<scores[i], max_score - min_score>>]

(***************************************************************************)
(* normalize_scores: min-max scaling; a uniform list maps to 1.0.          *)
(***************************************************************************)
normalize_scores(scores) ==
    IF scores = <<>> THEN <<>>
    ELSE LET min_score == SeqMin(scores)
             max_score == SeqMax(scores)
         IN IF max_score = min_score
            THEN [i \in 1..Len(scores) |-> One]
            ELSE [i \in 1..Len(scores) |->
                    <<scores[i] - min_score, max_score - min_score>>]

\* score / max_expected without the clamp to 1.0.
absolute_norm_unclamped(score, max_expected) == <<score, max_expected>>

\* min(1.0, score / max_expected)
absolute_norm(score, max_expected) ==
    IF score >= max_expected THEN One ELSE <<score, max_expected>>

\* absolute_scores with the largest score of the list as the reference.
absolute_scores_by_max(scores, max_expected) ==
    [i \in 1..Len(scores) |-> absolute_norm(scores[i], SeqMax(scores))]

absolute_scores(scores, max_expected) ==
    [i \in 1..Len(scores) |-> absolute_norm(scores[i], max_expected)]

\* The regime test with > for >=.
UseNormalization_strict(n) == n > NORMALIZATION_THRESHOLD

\* The regime test of line 41.
UseNormalization(n) == n >= NORMALIZATION_THRESHOLD

(***************************************************************************)
(* round((W_G * g + W_T * t + W_N * n) * 100, 2), in hundredths, for       *)
(* normalized scores g, t, n given as fractions.  Each term is split into  *)
(* its whole hundredths and a remainder over the common denominator.       *)
(***************************************************************************)
TermScale == (ScoreScale * RoundScale) \div WeightScale

ScoreWhole(g, t, n) ==
    ((TermScale * W_G * g[1]) \div g[2]) + ((TermScale * W_T * t[1]) \div t[2])
        + ((TermScale * W_N * n[1]) \div n[2])

ScoreDen(g, t, n) == g[2] * t[2] * n[2]

ScoreRem(g, t, n) ==
    ((TermScale * W_G * g[1]) % g[2]) * t[2] * n[2]
        + ((TermScale * W_T * t[1]) % t[2]) * g[2] * n[2]
        + ((TermScale * W_N * n[1]) % n[2]) * g[2] * t[2]

\* The exact value is halfway between two hundredths.
IsHalf(g, t, n) == 2 * (ScoreRem(g, t, n) % ScoreDen(g, t, n)) = ScoreDen(g, t, n)

\* round_score that cuts the digits after the second decimal off.
round_score_truncated(g, t, n, half_up) ==
    ScoreWhole(g, t, n) + (ScoreRem(g, t, n) \div ScoreDen(g, t, n))

round_score(g, t, n, half_up) ==
    LET den == ScoreDen(g, t, n)
        rem == ScoreRem(g, t, n)
        floor == ScoreWhole(g, t, n) + (rem \div den)
        frac == rem % den
    IN IF 2 * frac > den \/ (2 * frac = den /\ half_up)
       THEN floor + 1
       ELSE floor

(***************************************************************************)
(* sorted(builder_scores, key=builder_score, reverse=True): a stable sort, *)
(* equal keys keep their order.                                            *)
(***************************************************************************)
\* s with x placed before the elements of its own score: what reversing an
\* ascending sort does to equal keys.
InsertDesc_reversed_ties(s, x) ==
    LET before == {i \in 1..Len(s) : s[i].builder_score > x.builder_score}
        k == Cardinality(before)
    IN SubSeq(s, 1, k) \o <<x>> \o SubSeq(s, k + 1, Len(s))

\* s with x placed after every element whose score is at least x's.
InsertDesc(s, x) ==
    LET before == {i \in 1..Len(s) : s[i].builder_score >= x.builder_score}
        k == Cardinality(before)
    IN SubSeq(s, 1, k) \o <<x>> \o SubSeq(s, k + 1, Len(s))

RECURSIVE SortedDesc(_)
SortedDesc(s) ==
    IF s = <<>> THEN <<>>
    ELSE InsertDesc(SortedDesc(SubSeq(s, 1, Len(s) - 1)), s[Len(s)])

\* The first index of ud at which the body of the first loop raises, 0 if none.
FirstTypeError(ud) ==
    LET bad == {i \in 1..Len(ud) : RaisesTypeError(ud[i])}
    IN IF bad = {} THEN 0 ELSE SetMin(bad)

\* Lines 31-38: the raw score lists, as far as the loop gets (`bad` is
\* FirstTypeError(ud)).
first_loop(ud, bad) ==
    LET done == IF bad = 0 THEN Len(ud) ELSE bad - 1
    IN [github |-> [i \in 1..done |-> g_score(ud[i])],
        telegram |-> [i \in 1..done |-> t_score(ud[i])],
        nomination |-> [i \in 1..done |-> n_score(ud[i])]]

\* normalize with the three dimensions scaled against one common minimum and
\* maximum in the min-max regime.
normalize_joint(raw, n) ==
    IF UseNormalization(n)
    THEN LET all == raw.github \o raw.telegram \o raw.nomination
             lo == SeqMin(all)
             hi == SeqMax(all)
             scaled(s) == [i \in 1..Len(s) |-> IF hi = lo THEN One ELSE <<s[i] - lo, hi - lo>>]
         IN [github |-> IF raw.github = <<>> THEN <<>> ELSE scaled(raw.github),
             telegram |-> IF raw.github = <<>> THEN <<>> ELSE scaled(raw.telegram),
             nomination |-> IF raw.github = <<>> THEN <<>> ELSE scaled(raw.nomination)]
    ELSE [github |-> absolute_scores(raw.github, MAX_EXPECTED_GITHUB),
          telegram |-> absolute_scores(raw.telegram, MAX_EXPECTED_TELEGRAM * TelegramScale),
          nomination |-> absolute_scores(raw.nomination, MAX_EXPECTED_NOMINATIONS)]

\* Lines 41-50: the normalized lists, from the raw lists of a loop that finished.
normalize(raw, n) ==
    IF UseNormalization(n)
    THEN [github |-> normalize_scores(raw.github),
          telegram |-> normalize_scores(raw.telegram),
          nomination |-> normalize_scores(raw.nomination)]
    ELSE [github |-> absolute_scores(raw.github, MAX_EXPECTED_GITHUB),
          telegram |-> absolute_scores(raw.telegram, MAX_EXPECTED_TELEGRAM * TelegramScale),
          nomination |-> absolute_scores(raw.nomination, MAX_EXPECTED_NOMINATIONS)]

\* Line 54 with the bound one too small: the last record is skipped.
InRange_off_by_one(i, norm) == i < Len(norm.github) /\ i < Len(norm.telegram) /\ i < Len(norm.nomination)

\* Line 54 (indices from 1).
InRange(i, norm) == i <= Len(norm.github) /\ i <= Len(norm.telegram) /\ i <= Len(norm.nomination)

\* The first index of ud at which the body of the second loop raises, 0 if none.
FirstKeyError(ud, norm) ==
    LET bad == {i \in 1..Len(ud) : InRange(i, norm) /\ RaisesKeyError(ud[i])}
    IN IF bad = {} THEN 0 ELSE SetMin(bad)

\* score_entry with the code and chat scores swapped under their weights.
score_entry_swapped(user, norm, i, half_up) ==
    [user_id |-> user.user_id,
     username |-> user.username,
     builder_score |-> round_score(norm.telegram[i], norm.github[i], norm.nomination[i], half_up)]

\* Lines 56-62: the entry appended for record i.
score_entry(user, norm, i, half_up) ==
    [user_id |-> user.user_id,
     username |-> user.username,
     builder_score |-> round_score(norm.github[i], norm.telegram[i], norm.nomination[i], half_up)]

RECURSIVE second_loop(_, _, _, _)
\* Lines 52-62: builder_scores after the first k records.
second_loop(ud, norm, k, up) ==
    IF k = 0 THEN <<>>
    ELSE LET prev == second_loop(ud, norm, k - 1, up)
         IN IF InRange(k, norm)
            THEN Append(prev, score_entry(ud[k], norm, k, k \in up))
            ELSE prev

(***************************************************************************)
(* compute_builder_scores(user_data).  `up` is the set of indices whose    *)
(* double rounds up at an exact half.  The value is the outcome            *)
(* ("returned", or the exception raised), the locals as the call leaves    *)
(* them, and the returned list.                                            *)
(***************************************************************************)
NoNorm == [github |-> <<>>, telegram |-> <<>>, nomination |-> <<>>]

compute_builder_scores(ud, up) ==
    LET bad1 == FirstTypeError(ud)
        raw == first_loop(ud, bad1)
    IN IF bad1 # 0
       THEN [outcome |-> "TypeError", raw |-> raw, norm |-> NoNorm,
             builder_scores |-> <<>>, value |-> <<>>]
       ELSE LET norm == normalize(raw, Len(ud))
                bad2 == FirstKeyError(ud, norm)
                scores == second_loop(ud, norm, IF bad2 = 0 THEN Len(ud) ELSE bad2 - 1, up)
            IN IF bad2 # 0
               THEN [outcome |-> "KeyError", raw |-> raw, norm |-> norm,
                     builder_scores |-> scores, value |-> <<>>]
               ELSE [outcome |-> "returned", raw |-> raw, norm |-> norm,
                     builder_scores |-> scores, value |-> SortedDesc(scores)]

\* The indices whose exact score is halfway between two hundredths.
HalfIndices(ud) ==
    IF FirstTypeError(ud) # 0 THEN {}
    ELSE LET norm == normalize(first_loop(ud, 0), Len(ud))
         IN {i \in 1..Len(ud) :
                InRange(i, norm) /\ IsHalf(norm.github[i], norm.telegram[i], norm.nomination[i])}

\* The argument after a call that fills the missing github_contributions in
\* (user.setdefault for user.get).
input_after_call_setdefault(ud) ==
    [i \in 1..Len(ud) |->
        [k \in DOMAIN ud[i] \cup {"github_contributions"} |->
            IF k \in DOMAIN ud[i] THEN ud[i][k] ELSE EmptyDict]]

\* What the call leaves of its argument and of the module's weight tables:
\* the function reads them (.get, subscripts, iteration) and sorted() builds
\* a new list.
input_after_call(ud) == ud
weights_after_call(w) == w

(***************************************************************************)
(* The store: users_collection of database.py.  A document is a record;    *)
(* the collection is the sequence of its documents in insertion order,     *)
(* which is the order find() returns them in.  A string field that may be  *)
(* None holds None or Str(s).                                              *)
(***************************************************************************)
Str(s) == [str |-> s]

\* The Telegram usernames of the accounts, by user_id.
StoreNames == <<"u1", "u2", "u3", "u4", "u5", "u6", "u7", "u8">>
Username(user_id) == StoreNames[user_id]

\* The GitHub logins an account may link and a webhook payload may name.
GithubLogins == {"octo", "hub"}

\* Lines 43-55 of database.py: the document of a new user.
new_user(user_id, username) ==
    [user_id |-> user_id,
     username |-> username,
     github_username |-> None,
     wallet_address |-> None,
     builder_score |-> 0,
     github_contributions |-> [commits |-> 0, prs |-> 0, issues |-> 0],
     telegram_activity |-> [messages |-> 0, replies |-> 0],
     nominations_received |-> 0,
     nominations_given |-> <<>>]

\* find_one({field: value}): the position of the first match, 0 if none.
find_one(us, field, value) ==
    LET hits == {i \in 1..Len(us) : us[i][field] = value}
    IN IF hits = {} THEN 0 ELSE SetMin(hits)

\* get_or_create_user: the collection afterwards.
get_or_create_user(us, user_id, username) ==
    IF find_one(us, "user_id", user_id) # 0 THEN us
    ELSE Append(us, new_user(user_id, username))

\* get_user
get_user(us, user_id) == find_one(us, "user_id", user_id)

\* update_one(..., {"$inc": {"<dict>.<key>": 1}}) on the document at position i.
inc_one(us, i, dict, key) ==
    [us EXCEPT ![i] = [@ EXCEPT ![dict] = [@ EXCEPT ![key] = @ + 1]]]

\* update_telegram_activity: the collection afterwards.
update_telegram_activity(us, user_id, activity_type) ==
    IF activity_type \notin {"messages", "replies"} THEN us
    ELSE LET i == find_one(us, "user_id", user_id)
         IN IF i = 0 THEN us ELSE inc_one(us, i, "telegram_activity", activity_type)

\* get_user_by_github_username
get_user_by_github_username(us, github_username) ==
    find_one(us, "github_username", Str(github_username))

\* update_github_contribution: the collection afterwards.
update_github_contribution(us, github_username, contribution_type) ==
    IF contribution_type \notin {"commits", "prs", "issues"} THEN us
    ELSE LET i == get_user_by_github_username(us, github_username)
         IN IF i = 0 THEN us ELSE inc_one(us, i, "github_contributions", contribution_type)

\* update_user_github: the collection afterwards.
update_user_github(us, user_id, github_username) ==
    LET i == find_one(us, "user_id", user_id)
    IN IF i = 0 THEN us ELSE [us EXCEPT ![i].github_username = Str(github_username)]

\* update_user_builder_score with $inc for $set.
update_user_builder_score_inc(us, user_id, score) ==
    LET i == find_one(us, "user_id", user_id)
    IN IF i = 0 THEN us ELSE [us EXCEPT ![i].builder_score = @ + score]

\* update_user_builder_score: the collection afterwards.
update_user_builder_score(us, user_id, score) ==
    LET i == find_one(us, "user_id", user_id)
    IN IF i = 0 THEN us ELSE [us EXCEPT ![i].builder_score = score]

\* Whether x is an element of the list s.
InList(x, s) == \E k \in 1..Len(s) : s[k] = x

\* add_nomination: the status it returns and the collection afterwards.
add_nomination(us, nominator_id, nominee_username) ==
    LET nominator == find_one(us, "user_id", nominator_id)
        nominee == find_one(us, "username", nominee_username)
    IN IF nominator = 0 THEN [status |-> "error", users |-> us, nominee |-> 0]
       ELSE IF nominee = 0 THEN [status |-> "error", users |-> us, nominee |-> 0]
       ELSE IF nominator_id = us[nominee].user_id
            THEN [status |-> "error", users |-> us, nominee |-> 0]
       ELSE IF InList(nominee_username, us[nominator].nominations_given)
            THEN [status |-> "error", users |-> us, nominee |-> 0]
       ELSE LET pushed == [us EXCEPT ![nominator].nominations_given =
                                          Append(@, nominee_username)]
            IN [status |-> "success",
                users |-> [pushed EXCEPT ![nominee].nominations_received = @ + 1],
                nominee |-> us[nominee].user_id]

\* get_all_users: the list it returns; [] when find() raises.
get_all_users(us, read_ok) == IF read_ok THEN us ELSE <<>>

(***************************************************************************)
(* The recomputation pass the handlers share:                              *)
(*     users_data = get_all_users()                                        *)
(*     if users_data:                                                      *)
(*         response = compute_builder_scores(users_data)                   *)
(*         for r in response:                                              *)
(*             update_user_builder_score(r.get("user_id"),                 *)
(*                                       r.get("builder_score"))           *)
(* A fault says what the store does during one pass: find() raises         *)
(* (get_all_users then returns []), or update_one raises at the            *)
(* fail-th result of the loop, or neither.  The trace lists the store      *)
(* operations in the order they were made.                                 *)
(***************************************************************************)
\* F applied to the value of v, with v evaluated once.
With(v, F(_)) == CHOOSE r \in {F(x) : x \in {v}} : TRUE

\* One store operation: on the field `key` of the document of user_id, or on
\* the key `key` of its dict `dict`.
Op(op, user_id, dict, key, value, ok) ==
    [op |-> op, user_id |-> user_id, dict |-> dict, key |-> key, value |-> value, ok |-> ok]

NoFault == [read_ok |-> TRUE, fail |-> 0]
Faults(n) ==
    {NoFault, [read_ok |-> FALSE, fail |-> 0]}
        \cup {[read_ok |-> TRUE, fail |-> k] : k \in 1..n}

\* One iteration of the loop: the write of result r, which raises or not.
write_step(prev, r, raises) ==
    [users |-> IF raises THEN prev.users
               ELSE update_user_builder_score(prev.users, r.user_id, r.builder_score),
     trace |-> Append(prev.trace,
                      Op("write", r.user_id, "", "builder_score", r.builder_score, ~raises))]

RECURSIVE write_loop(_, _, _, _)
\* The loop over response, through its k-th iteration; update_one raises in
\* iteration `fail` (0: never).
write_loop(us, response, k, fail) ==
    IF k = 0 THEN [users |-> us, trace |-> <<>>]
    ELSE With(write_loop(us, response, k - 1, fail),
              LAMBDA prev : write_step(prev, response[k], k = fail))

\* The indices that round up at an exact half in this run.
RoundUp(users_data) == IF halves_up THEN HalfIndices(users_data) ELSE {}

\* The pass from the call of compute_builder_scores on: `out` is what the
\* call gives, `read` the operation that read users_data.
score_and_write(us, out, read, fail) ==
    IF out.outcome # "returned"
    THEN [users |-> us, trace |-> <<read>>, raised |-> TRUE]
    ELSE With(write_loop(us, out.value,
                         IF fail \in 1..Len(out.value) THEN fail ELSE Len(out.value), fail),
              LAMBDA w : [users |-> w.users, trace |-> <<read>> \o w.trace,
                          raised |-> fail \in 1..Len(out.value)])

\* One pass: the collection afterwards, the operations made, and whether an
\* exception left the pass.
recompute(us, fault) ==
    With(get_all_users(us, fault.read_ok),
         LAMBDA users_data :
            IF users_data = <<>>
            THEN [users |-> us, trace |-> <<Op("read", 0, "", "", 0, fault.read_ok)>>,
                  raised |-> FALSE]
            ELSE With(compute_builder_scores(users_data, RoundUp(users_data)),
                      LAMBDA out :
                         score_and_write(us, out,
                                         Op("read", 0, "", "", Len(users_data), fault.read_ok),
                                         fault.fail)))

(***************************************************************************)
(* The handlers.  Each operator gives what one run of the handler leaves:  *)
(* the collection, the store operations it made, and how it ended.         *)
(***************************************************************************)
IncOp(user_id, dict, key) == Op("inc", user_id, dict, key, 1, TRUE)

\* bot.py, start (and the other callers of get_or_create_user that make no
\* pass: start_private_setup_flow, button_callback).
start(us, user_id) ==
    [users |-> get_or_create_user(us, user_id, Username(user_id)),
     trace |-> IF get_user(us, user_id) # 0 THEN <<>>
               ELSE <<Op("create", user_id, "", "", 0, TRUE)>>,
     status |-> "returned"]

\* bot.py, save_github_username: a set github_username is kept.
save_github_username(us, user_id, github_username) ==
    LET i == get_user(us, user_id)
    IN IF i # 0 /\ us[i].github_username # None
       THEN [users |-> us, trace |-> <<>>, status |-> "already set"]
       ELSE [users |-> update_user_github(us, user_id, github_username),
             trace |-> IF i = 0 THEN <<>>
                       ELSE <<Op("set", user_id, "", "github_username", 0, TRUE)>>,
             status |-> "returned"]

\* A handler's outcome `first` followed by a pass.
then_recompute(first, fault) ==
    With(recompute(first.users, fault),
         LAMBDA p : [users |-> p.users, trace |-> first.trace \o p.trace, raised |-> p.raised])

\* Lines 851-858 of bot.py: the message count and its pass.
count_message(created, user_id, fault) ==
    With([users |-> update_telegram_activity(created.users, user_id, "messages"),
          trace |-> Append(created.trace, IncOp(user_id, "telegram_activity", "messages"))],
         LAMBDA counted : then_recompute(counted, fault))

\* Lines 866-873 of bot.py: the reply count and its pass.
count_reply(before, user_id, fault) ==
    With([users |-> update_telegram_activity(before.users, user_id, "replies"),
          trace |-> Append(before.trace, IncOp(user_id, "telegram_activity", "replies"))],
         LAMBDA counted : then_recompute(counted, fault))

\* Lines 866-873 of bot.py without the pass.
count_reply_unscored(before, user_id, fault) ==
    [users |-> update_telegram_activity(before.users, user_id, "replies"),
     trace |-> Append(before.trace, IncOp(user_id, "telegram_activity", "replies")),
     raised |-> FALSE]

\* handle_group_message with no pass after the reply count.
handle_group_message_reply_unscored(us, user_id, is_reply, fault1, fault2) ==
    With(With(start(us, user_id), LAMBDA created : count_message(created, user_id, fault1)),
         LAMBDA first :
            With(IF is_reply THEN count_reply_unscored(first, user_id, fault2) ELSE first,
                 LAMBDA last : [users |-> last.users, trace |-> last.trace,
                                status |-> "returned"]))

\* bot.py, handle_group_message, for a message the filters let through.
handle_group_message(us, user_id, is_reply, fault1, fault2) ==
    With(With(start(us, user_id), LAMBDA created : count_message(created, user_id, fault1)),
         LAMBDA first :
            With(IF is_reply THEN count_reply(first, user_id, fault2) ELSE first,
                 LAMBDA last : [users |-> last.users, trace |-> last.trace,
                                status |-> "returned"]))

\* Lines 1084-1095 of bot.py: after add_nomination returned res.
nominated(us, user_id, res, fault) ==
    IF res.status # "success"
    THEN [users |-> us, trace |-> <<>>, status |-> "error"]
    ELSE With(then_recompute([users |-> res.users,
                              trace |-> <<Op("push", user_id, "", "nominations_given", 0, TRUE),
                                          IncOp(res.nominee, "", "nominations_received")>>],
                             fault),
              LAMBDA p : [users |-> p.users, trace |-> p.trace,
                          status |-> IF p.raised THEN "raised" ELSE "returned"])

\* bot.py, nominate_command with one argument.
nominate_command(us, user_id, nominee_username, fault) ==
    IF get_user(us, user_id) = 0
    THEN [users |-> us, trace |-> <<>>, status |-> "no profile"]
    ELSE With(add_nomination(us, user_id, nominee_username),
              LAMBDA res : nominated(us, user_id, res, fault))

\* update_github_contribution as the webhook calls it, after `prev`: the
\* collection afterwards and the increment made, if any.
contribution(prev, github_username, contribution_type) ==
    With(get_user_by_github_username(prev.users, github_username),
         LAMBDA i :
            IF i = 0 THEN prev
            ELSE [users |-> update_github_contribution(prev.users, github_username,
                                                       contribution_type),
                  trace |-> Append(prev.trace,
                                   IncOp(prev.users[i].user_id, "github_contributions",
                                         contribution_type))])

RECURSIVE push_commits(_, _, _)
\* webhooks.py, lines 363-367: the loop over payload["commits"], through
\* its k-th commit.
push_commits(us, commits, k) ==
    IF k = 0 THEN [users |-> us, trace |-> <<>>]
    ELSE With(push_commits(us, commits, k - 1),
              LAMBDA prev : contribution(prev, commits[k], "commits"))

\* webhooks.py, lines 360-392: the counters an event increments.
count_event(us, event, payload) ==
    IF event = "push" THEN push_commits(us, payload.commits, Len(payload.commits))
    ELSE IF event = "pull_request" /\ payload.action = "opened"
         THEN contribution([users |-> us, trace |-> <<>>], payload.login, "prs")
    ELSE IF event = "issues" /\ payload.action = "opened"
         THEN contribution([users |-> us, trace |-> <<>>], payload.login, "issues")
    ELSE [users |-> us, trace |-> <<>>]

\* webhooks.py, github_webhook, for a request whose signature verifies.
github_webhook(us, event, payload, fault) ==
    IF event \notin {"push", "pull_request", "issues"}
    THEN [users |-> us, trace |-> <<>>, status |-> "ignored"]
    ELSE With(With(count_event(us, event, payload),
                   LAMBDA counted : then_recompute(counted, fault)),
              LAMBDA p : [users |-> p.users, trace |-> p.trace,
                          status |-> IF p.raised THEN "400" ELSE "handled"])

(***************************************************************************)
(* The specification: the caller builds a list of records, then calls      *)
(* compute_builder_scores on it.                                           *)
(***************************************************************************)
Malformed(ud) == {i \in 1..Len(ud) : ud[i] \in MalformedRecords}

\* No handler has run yet.
NoHandler == [name |-> "none", trace |-> <<>>, status |-> "none"]

\* The two processes that share the store: the bot (bot.py, main) and the
\* web server of the webhook (webhooks.py, uvicorn.run).
ProcNames == {"bot", "webhook"}

\* A process between two handlers, having run `runs` of them.
Idle(runs) ==
    [pc |-> "idle", user_id |-> 0, is_reply |-> FALSE, response |-> <<>>, next |-> 0,
     runs |-> runs]

Init ==
    /\ user_data = <<>>
    /\ module_weights = [github |-> GITHUB_WEIGHTS, telegram |-> TELEGRAM_WEIGHTS]
    /\ pc = "input"
    /\ raised = "none"
    /\ github_raw_scores = <<>>
    /\ telegram_raw_scores = <<>>
    /\ nomination_scores = <<>>
    /\ github_norm = <<>>
    /\ telegram_norm = <<>>
    /\ nomination_norm = <<>>
    /\ builder_scores = <<>>
    /\ result = <<>>
    /\ users = <<>>
    /\ halves_up = FALSE
    /\ events = 0
    /\ failures = 0
    /\ handler = NoHandler
    /\ procs = [p \in ProcNames |-> Idle(0)]
    /\ conversations = EmptyDict
    /\ user_setup_state = EmptyDict
    /\ group_message_cache = EmptyDict

\* The caller appends one more record to the list it will pass.
AddUser(r) ==
    /\ pc = "input"
    /\ Len(user_data) < MaxUsers
    /\ r \in MalformedRecords => Cardinality(Malformed(user_data)) < MaxMalformed
    /\ user_data' = Append(user_data, r)
    /\ UNCHANGED <<module_weights, pc, locals, store, dialogue>>

\* One call of compute_builder_scores(user_data).
Call ==
    /\ pc = "input"
    /\ \E up \in SUBSET HalfIndices(user_data) :
       \E out \in {compute_builder_scores(user_data, up)} :
             /\ pc' = IF out.outcome = "returned" THEN "returned" ELSE "raised"
             /\ raised' = IF out.outcome = "returned" THEN "none" ELSE out.outcome
             /\ github_raw_scores' = out.raw.github
             /\ telegram_raw_scores' = out.raw.telegram
             /\ nomination_scores' = out.raw.nomination
             /\ github_norm' = out.norm.github
             /\ telegram_norm' = out.norm.telegram
             /\ nomination_norm' = out.norm.nomination
             /\ builder_scores' = out.builder_scores
             /\ result' = out.value
    /\ user_data' = input_after_call(user_data)
    /\ module_weights' = weights_after_call(module_weights)
    /\ UNCHANGED <<store, dialogue>>

Next == (\E r \in UserRecords : AddUser(r)) \/ Call

Spec == Init /\ [][Next]_vars

(***************************************************************************)
(* The specification of a population that differs in code only: the caller *)
(* passes records with the same chat activity and the same nominations and *)
(* a commit count each.                                                    *)
(***************************************************************************)
\* The commit counts of the peers: those of six users ten commits apart,
\* and one in between.
ExampleCounts == {10, 20, 30, 40, 50, 60}
CodeCounts == ExampleCounts \cup {19}

\* As many peers as the example has, of which MaxTies may have the commit
\* count of an earlier one.
MaxPeers == Cardinality(ExampleCounts)
MaxTies == 1

\* The record of the peer with this user_id and this many commits.
Peer(user_id, commits) ==
    [user_id |-> user_id, username |-> Username(user_id),
     github_contributions |-> [commits |-> commits, prs |-> 0, issues |-> 0],
     telegram_activity |-> [messages |-> 2, replies |-> 1],
     nominations_received |-> 1]

\* The caller appends the record of one more peer.
AddPeer(commits) ==
    /\ pc = "input"
    /\ Len(user_data) < MaxPeers
    /\ Len(user_data) + 1
          - Cardinality({user_data[i].github_contributions.commits : i \in 1..Len(user_data)}
                           \cup {commits}) <= MaxTies
    /\ user_data' = Append(user_data, Peer(Len(user_data) + 1, commits))
    /\ UNCHANGED <<module_weights, pc, locals, store, dialogue>>

PeerNext == (\E commits \in CodeCounts : AddPeer(commits)) \/ Call

PeerSpec == Init /\ [][PeerNext]_vars

(***************************************************************************)
(* The specification of the store: the bot's handlers and the webhook run  *)
(* one at a time on users_collection, each from its first line to its      *)
(* return.  The variables of a single call keep their initial values.      *)
(***************************************************************************)
MaxStoreUsers == 5      \* accounts that ever reach the bot
MaxEvents == 2          \* handler runs
MaxFailures == 1        \* store operations that fail

\* The accounts a handler hears from: the two oldest ones and the next new one.
Accounts ==
    {user_id \in {1, 2} : user_id <= Len(users)}
        \cup {user_id \in {Len(users) + 1} : user_id <= MaxStoreUsers}

\* The commit authors of the push payloads.
PushCommits == {<<>>, <<"octo">>, <<"octo", "octo">>, <<"octo", "hub">>}

\* The payloads of a webhook request, by event.
Payloads(event) ==
    IF event = "push"
    THEN {[commits |-> c, action |-> "", login |-> ""] : c \in PushCommits}
    ELSE IF event \in {"pull_request", "issues"}
    THEN {[commits |-> <<>>, action |-> a, login |-> "octo"] : a \in {"opened", "closed"}}
    ELSE {[commits |-> <<>>, action |-> "", login |-> ""]}

\* What the store may do during one pass over n documents: fail the read,
\* or the first or the second write, while failures are left.
PassFaults(n) ==
    IF failures < MaxFailures THEN Faults(IF n < 2 THEN n ELSE 2) ELSE {NoFault}

\* The store operations of a trace that failed.
FailedOps(trace) == {k \in 1..Len(trace) : ~trace[k].ok}

RECURSIVE Registered(_)
\* The collection after the accounts 1..n have each sent /start.
Registered(n) ==
    IF n = 0 THEN <<>> ELSE start(Registered(n - 1), n).users

StoreInit ==
    /\ user_data = <<>>
    /\ module_weights = [github |-> GITHUB_WEIGHTS, telegram |-> TELEGRAM_WEIGHTS]
    /\ pc = "input"
    /\ raised = "none"
    /\ github_raw_scores = <<>>
    /\ telegram_raw_scores = <<>>
    /\ nomination_scores = <<>>
    /\ github_norm = <<>>
    /\ telegram_norm = <<>>
    /\ nomination_norm = <<>>
    /\ builder_scores = <<>>
    /\ result = <<>>
    /\ \E n \in 0..(MaxStoreUsers - 1) : users = Registered(n)
    /\ halves_up \in BOOLEAN
    /\ events = 0
    /\ failures = 0
    /\ handler = NoHandler
    /\ procs = [p \in ProcNames |-> Idle(0)]
    /\ conversations = EmptyDict
    /\ user_setup_state = EmptyDict
    /\ group_message_cache = EmptyDict

\* One run of a handler, given what it leaves.
Run(name, out) ==
    /\ failures + Cardinality(FailedOps(out.trace)) <= MaxFailures
    /\ users' = out.users
    /\ handler' = [name |-> name, trace |-> out.trace, status |-> out.status]
    /\ events' = events + 1
    /\ failures' = failures + Cardinality(FailedOps(out.trace))
    /\ UNCHANGED <<halves_up, procs, dialogue, user_data, module_weights, pc, locals>>

StartCommand ==
    /\ events < MaxEvents
    /\ \E user_id \in Accounts :
          \E out \in {start(users, user_id)} : Run("start", out)

SaveGithubUsername ==
    /\ events < MaxEvents
    /\ \E user_id \in Accounts, github_username \in GithubLogins :
          \E out \in {save_github_username(users, user_id, github_username)} :
             Run("save_github_username", out)

GroupMessage ==
    /\ events < MaxEvents
    /\ \E user_id \in Accounts, is_reply \in BOOLEAN :
          \E fault1 \in PassFaults(Len(users) + 1),
             fault2 \in IF is_reply THEN PassFaults(Len(users) + 1) ELSE {NoFault} :
             \E out \in {handle_group_message(users, user_id, is_reply, fault1, fault2)} :
                Run("handle_group_message", out)

NominateCommand ==
    /\ events < MaxEvents
    /\ \E user_id \in Accounts, nominee \in Accounts, fault \in PassFaults(Len(users)) :
          \E out \in {nominate_command(users, user_id, Username(nominee), fault)} :
             Run("nominate_command", out)

GithubWebhook ==
    /\ events < MaxEvents
    /\ \E event \in {"push", "pull_request", "issues", "ping"}, fault \in PassFaults(Len(users)) :
          \E payload \in Payloads(event) :
             \E out \in {github_webhook(users, event, payload, fault)} :
                Run("github_webhook", out)

StoreNext ==
    \/ StartCommand
    \/ SaveGithubUsername
    \/ GroupMessage
    \/ NominateCommand
    \/ GithubWebhook

StoreSpec == StoreInit /\ [][StoreNext]_vars

(***************************************************************************)
(* The specification of the two processes on one store.  The bot and the   *)
(* web server each run their handlers one at a time, but the two run side  *)
(* by side: a step is one store operation of one process (with the         *)
(* computation that follows it in the handler), and the steps of the two   *)
(* interleave.  The bot handles a group message (handle_group_message),    *)
(* the web server a pull_request event whose action is "opened".  No store *)
(* operation fails.                                                        *)
(***************************************************************************)
MaxConcUsers == 2       \* accounts in the store
MaxRuns == 1            \* handlers each process runs

\* The collection after the accounts 1..n have each sent /start and account
\* 1 has linked the login "octo".
Linked(n) == save_github_username(Registered(n), 1, "octo").users

\* The accounts a group message comes from: the stored ones and the next new one.
ConcAccounts == {user_id \in 1..MaxConcUsers : user_id <= Len(users) + 1}

ConcInit ==
    /\ user_data = <<>>
    /\ module_weights = [github |-> GITHUB_WEIGHTS, telegram |-> TELEGRAM_WEIGHTS]
    /\ pc = "input"
    /\ raised = "none"
    /\ github_raw_scores = <<>>
    /\ telegram_raw_scores = <<>>
    /\ nomination_scores = <<>>
    /\ github_norm = <<>>
    /\ telegram_norm = <<>>
    /\ nomination_norm = <<>>
    /\ builder_scores = <<>>
    /\ result = <<>>
    /\ \E n \in 1..MaxConcUsers : users = Linked(n)
    /\ halves_up \in BOOLEAN
    /\ events = 0
    /\ failures = 0
    /\ handler = NoHandler
    /\ procs = [p \in ProcNames |-> Idle(0)]
    /\ conversations = EmptyDict
    /\ user_setup_state = EmptyDict
    /\ group_message_cache = EmptyDict

\* One step of process p: it goes on as `proc` and leaves the collection `us`.
Step(p, proc, us) ==
    /\ procs' = [procs EXCEPT ![p] = proc]
    /\ users' = us
    /\ UNCHANGED <<halves_up, events, failures, handler, dialogue, user_data, module_weights,
                   pc, locals>>

\* What a process does after the last write of a pass: the reply count of
\* handle_group_message, or the return of the handler.
AfterPass(proc) ==
    IF proc.is_reply
    THEN [proc EXCEPT !.pc = "replying", !.is_reply = FALSE, !.response = <<>>, !.next = 0]
    ELSE Idle(proc.runs + 1)

\* bot.py, line 842: get_or_create_user at the start of handle_group_message.
BotLookup(user_id, is_reply) ==
    /\ procs.bot.pc = "idle"
    /\ procs.bot.runs < MaxRuns
    /\ Step("bot",
            [procs.bot EXCEPT !.pc = "created", !.user_id = user_id, !.is_reply = is_reply],
            get_or_create_user(users, user_id, Username(user_id)))

\* bot.py, lines 851 and 866: update_telegram_activity.
BotCount ==
    /\ procs.bot.pc \in {"created", "replying"}
    /\ Step("bot",
            [procs.bot EXCEPT !.pc = "counted"],
            update_telegram_activity(users, procs.bot.user_id,
                                     IF procs.bot.pc = "created" THEN "messages" ELSE "replies"))

\* webhooks.py, lines 378-380: update_github_contribution for an opened
\* pull request.
WebhookCount(login) ==
    /\ procs.webhook.pc = "idle"
    /\ procs.webhook.runs < MaxRuns
    /\ Step("webhook",
            [procs.webhook EXCEPT !.pc = "counted"],
            update_github_contribution(users, login, "prs"))

\* get_all_users() and compute_builder_scores(users_data): the snapshot is
\* read and the response computed from it.
Read(p) ==
    /\ procs[p].pc = "counted"
    /\ \E users_data \in {get_all_users(users, TRUE)} :
          IF users_data = <<>>
          THEN Step(p, AfterPass(procs[p]), users)
          ELSE \E out \in {compute_builder_scores(users_data, RoundUp(users_data))} :
                  Step(p,
                       [procs[p] EXCEPT !.pc = "writing", !.response = out.value, !.next = 1],
                       users)

\* One iteration of "for r in response": update_user_builder_score.
Write(p) ==
    /\ procs[p].pc = "writing"
    /\ \E r \in {procs[p].response[procs[p].next]} :
          Step(p,
               IF procs[p].next = Len(procs[p].response)
               THEN AfterPass(procs[p])
               ELSE [procs[p] EXCEPT !.next = @ + 1],
               update_user_builder_score(users, r.user_id, r.builder_score))

ConcNext ==
    \/ \E user_id \in ConcAccounts, is_reply \in BOOLEAN : BotLookup(user_id, is_reply)
    \/ BotCount
    \/ \E login \in GithubLogins : WebhookCount(login)
    \/ \E p \in ProcNames : Read(p)
    \/ \E p \in ProcNames : Write(p)

ConcSpec == ConcInit /\ [][ConcNext]_vars

(***************************************************************************)
(* The specification of the nominations: users are created by              *)
(* get_or_create_user with the username Telegram reports for them at that  *)
(* moment, and add_nomination is called on them.  The store keeps the      *)
(* username it was given at creation (no function of database.py updates   *)
(* it), so two documents hold the same username once an account has taken  *)
(* over the username another account had when it was created.              *)
(***************************************************************************)
MaxNomUsers == 3        \* users created
MaxNominations == 3     \* calls of add_nomination

\* The usernames of the accounts, and one that no account has.
NomNames == {"ann", "bob"}
UnknownName == "zed"

NomInit ==
    /\ user_data = <<>>
    /\ module_weights = [github |-> GITHUB_WEIGHTS, telegram |-> TELEGRAM_WEIGHTS]
    /\ pc = "input"
    /\ raised = "none"
    /\ github_raw_scores = <<>>
    /\ telegram_raw_scores = <<>>
    /\ nomination_scores = <<>>
    /\ github_norm = <<>>
    /\ telegram_norm = <<>>
    /\ nomination_norm = <<>>
    /\ builder_scores = <<>>
    /\ result = <<>>
    /\ users = <<>>
    /\ halves_up = FALSE
    /\ events = 0
    /\ failures = 0
    /\ handler = NoHandler
    /\ procs = [p \in ProcNames |-> Idle(0)]
    /\ conversations = EmptyDict
    /\ user_setup_state = EmptyDict
    /\ group_message_cache = EmptyDict

\* get_or_create_user for an account the store does not know yet.
CreateUser(username) ==
    /\ Len(users) < MaxNomUsers
    /\ users' = get_or_create_user(users, Len(users) + 1, username)
    /\ handler' = [name |-> "get_or_create_user", trace |-> <<>>, status |-> "returned",
                   nominator_id |-> 0, nominee_username |-> ""]
    /\ UNCHANGED <<halves_up, events, failures, procs, dialogue, user_data, module_weights, pc, locals>>

\* add_nomination(nominator_id, nominee_username)
AddNomination(nominator_id, nominee_username) ==
    /\ events < MaxNominations
    /\ \E res \in {add_nomination(users, nominator_id, nominee_username)} :
          /\ users' = res.users
          /\ handler' = [name |-> "add_nomination", trace |-> <<>>, status |-> res.status,
                         nominator_id |-> nominator_id, nominee_username |-> nominee_username]
    /\ events' = events + 1
    /\ UNCHANGED <<halves_up, failures, procs, dialogue, user_data, module_weights, pc, locals>>

NomNext ==
    \/ \E username \in NomNames : CreateUser(username)
    \/ \E nominator_id \in 1..MaxNomUsers, nominee_username \in NomNames \cup {UnknownName} :
          AddNomination(nominator_id, nominee_username)

NomSpec == NomInit /\ [][NomNext]_vars

(***************************************************************************)
(* The profile-setup dialogue of bot.py.  A text is the sequence of its    *)
(* characters.  A handler is an operator of the bot's state `w` (the       *)
(* collection, user_setup_state, group_message_cache) that gives the state *)
(* it leaves, the value it returns, the exception that left it ("none" if  *)
(* it returned) and the messages it sent.                                  *)
(***************************************************************************)
GITHUB_USERNAME == "GITHUB_USERNAME"
WALLET_ADDRESS == "WALLET_ADDRESS"
END == "ConversationHandler.END"
ReturnsNone == "None"

\* d[k] = v
Put(d, k, v) == [x \in DOMAIN d \cup {k} |-> IF x = k THEN v ELSE d[x]]
\* del d[k]
Del(d, k) == [x \in DOMAIN d \ {k} |-> d[x]]

Whitespace == {" ", "\t", "\n"}

\* str.strip() that strips nothing.
strip_nothing(s) == s

\* str.strip(): s[a..b] from the first to the last character that is not
\* whitespace.
strip(s) ==
    LET solid == {i \in 1..Len(s) : s[i] \notin Whitespace}
    IN IF solid = {} THEN <<>>
       ELSE SubSeq(s, SetMin(solid), CHOOSE b \in solid : \A i \in solid : i <= b)

HexDigits ==
    {"0", "1", "2", "3", "4", "5", "6", "7", "8", "9",
     "a", "b", "c", "d", "e", "f", "A", "B", "C", "D", "E", "F"}
AddressDigits == 40

\* The text is 0x followed by AddressDigits hexadecimal characters.
IsAddress(s) ==
    /\ Len(s) = AddressDigits + 2
    /\ s[1] = "0"
    /\ s[2] = "x"
    /\ \A i \in 3..Len(s) : s[i] \in HexDigits

\* re.compile(r'^0x[a-fA-F0-9]{40}$').match(s): $ matches at the end of the
\* string and also just before a newline that ends the string.
eth_regex_match(s) ==
    \/ IsAddress(s)
    \/ Len(s) = AddressDigits + 3 /\ s[Len(s)] = "\n" /\ IsAddress(SubSeq(s, 1, Len(s) - 1))

\* bool(value) of a stored string field: None and "" are false.
Truthy(value) == value # None /\ value.str # <<>>

\* escape_markdown_v2(text) iterates text: whether it raises TypeError.
EscapeRaises(text) == text = None

has_github(us, user_id) ==
    get_user(us, user_id) # 0 /\ Truthy(us[get_user(us, user_id)].github_username)
has_wallet(us, user_id) ==
    get_user(us, user_id) # 0 /\ Truthy(us[get_user(us, user_id)].wallet_address)

\* update_user_wallet: the collection afterwards.
update_user_wallet(us, user_id, wallet_address) ==
    LET i == find_one(us, "user_id", user_id)
    IN IF i = 0 THEN us ELSE [us EXCEPT ![i].wallet_address = Str(wallet_address)]

\* What a handler leaves when it returns `returned` after sending `replies`.
Returns(us, setup, cache, returned, replies) ==
    [users |-> us, user_setup_state |-> setup, group_message_cache |-> cache,
     returned |-> returned, raised |-> "none", replies |-> replies]

\* What a handler leaves when `exception` leaves it.
Raises(us, setup, cache, exception, replies) ==
    [users |-> us, user_setup_state |-> setup, group_message_cache |-> cache,
     returned |-> ReturnsNone, raised |-> exception, replies |-> replies]

\* user_setup_state[user_id]["step"] = step, for a user_id that is a key.
SetStep(setup, user_id, step) == [setup EXCEPT ![user_id] = Put(@, "step", step)]

TheGroup == "group"

\* "Not added", the default of line 248.
NotAdded == <<"N", "o", "t", " ", "a", "d", "d", "e", "d">>

\* Lines 55-90 of bot.py (and the same code at lines 315-351): the setup
\* state is reset and the next missing field is asked for.
begin_setup(us, setup0, cache, user_id) ==
    With(Put(setup0, user_id, [step |-> "start"]),
         LAMBDA setup :
            IF has_github(us, user_id) /\ has_wallet(us, user_id)
            THEN Returns(us, setup, cache, END, <<"profile already complete">>)
            ELSE IF ~has_github(us, user_id)
            THEN Returns(us, SetStep(setup, user_id, "github"), cache, GITHUB_USERNAME,
                         <<"enter github username">>)
            ELSE Returns(us, SetStep(setup, user_id, "wallet"), cache, WALLET_ADDRESS,
                         <<"enter wallet address">>))

\* bot.py, start_private_setup_flow.
start_private_setup_flow(w, user_id) ==
    With(get_or_create_user(w.users, user_id, Username(user_id)),
         LAMBDA us : begin_setup(us, w.user_setup_state, w.group_message_cache, user_id))

\* bot.py, start, lines 93-150, in a private chat or in the group.
start_command(w, user_id, private) ==
    With(get_or_create_user(w.users, user_id, Username(user_id)),
         LAMBDA us :
            IF private
            THEN begin_setup(us, w.user_setup_state, w.group_message_cache, user_id)
            ELSE IF has_github(us, user_id) /\ has_wallet(us, user_id)
            THEN Returns(us, w.user_setup_state, w.group_message_cache, ReturnsNone,
                         <<"profile already set up">>)
            ELSE Returns(us,
                         Put(w.user_setup_state, user_id,
                             [group_id |-> TheGroup, step |-> "invited"]),
                         Put(w.group_message_cache, user_id,
                             [group_id |-> TheGroup, message_id |-> "redirect"]),
                         ReturnsNone,
                         <<"moving to private chat", "start setup button">>))

\* Lines 247-296 of bot.py: profile_command for a user the store knows.
show_profile(w, user_id, private) ==
    With(w.users[get_user(w.users, user_id)],
         LAMBDA profile :
            IF EscapeRaises(profile.github_username)
            THEN Raises(w.users, w.user_setup_state, w.group_message_cache, "TypeError", <<>>)
            ELSE IF /\ private
                    /\ \/ profile.github_username = Str(NotAdded)
                       \/ profile.wallet_address = Str(NotAdded)
            THEN With(start_private_setup_flow(w, user_id),
                      LAMBDA flow : [flow EXCEPT !.replies = <<"profile, incomplete">> \o @])
            ELSE Returns(w.users, w.user_setup_state, w.group_message_cache, ReturnsNone,
                         <<"profile">>))

\* bot.py, profile_command.
profile_command(w, user_id, private) ==
    IF get_user(w.users, user_id) # 0 THEN show_profile(w, user_id, private)
    ELSE IF ~private
    THEN Returns(w.users,
                 Put(w.user_setup_state, user_id, [group_id |-> TheGroup, step |-> "invited"]),
                 w.group_message_cache, ReturnsNone,
                 <<"set up in private chat first", "type /start">>)
    ELSE With(start_private_setup_flow(w, user_id),
              LAMBDA flow : [flow EXCEPT !.returned = ReturnsNone,
                                         !.replies = <<"no profile yet">> \o @])

\* bot.py, button_callback, for the callback data of the setup.
button_callback(w, user_id, data) ==
    IF data = "start_setup"
    THEN start_private_setup_flow(w, user_id)
    ELSE IF data = "setup_github"
    THEN IF has_github(w.users, user_id)
         THEN Returns(w.users, w.user_setup_state, w.group_message_cache, END,
                      <<"github username already set">>)
         ELSE Returns(w.users, w.user_setup_state, w.group_message_cache, GITHUB_USERNAME,
                      <<"enter github username">>)
    ELSE IF data = "link_wallet"
    THEN IF has_wallet(w.users, user_id)
         THEN Returns(w.users, w.user_setup_state, w.group_message_cache, END,
                      <<"wallet address already set">>)
         ELSE Returns(w.users, w.user_setup_state, w.group_message_cache, WALLET_ADDRESS,
                      <<"send wallet address">>)
    ELSE Returns(w.users, w.user_setup_state, w.group_message_cache, ReturnsNone, <<>>)

\* Lines 481-503 of bot.py: the username is saved and the wallet asked for.
store_github_username(w, user_id, github_username) ==
    Returns(update_user_github(w.users, user_id, github_username),
            SetStep(IF user_id \in DOMAIN w.user_setup_state THEN w.user_setup_state
                    ELSE Put(w.user_setup_state, user_id, EmptyDict),
                    user_id, "wallet"),
            w.group_message_cache, WALLET_ADDRESS, <<"saved, enter wallet address">>)

\* bot.py, save_github_username, as the handler of the GITHUB_USERNAME state.
save_github_username_text(w, user_id, text) ==
    With(strip(text),
         LAMBDA github_username :
            IF github_username = <<>>
            THEN Returns(w.users, w.user_setup_state, w.group_message_cache, GITHUB_USERNAME,
                         <<"github username cannot be empty">>)
            ELSE IF has_github(w.users, user_id)
            THEN IF has_wallet(w.users, user_id)
                 THEN Returns(w.users, w.user_setup_state, w.group_message_cache, END,
                              <<"github username already set">>)
                 ELSE Returns(w.users,
                              IF user_id \in DOMAIN w.user_setup_state
                              THEN SetStep(w.user_setup_state, user_id, "wallet")
                              ELSE w.user_setup_state,
                              w.group_message_cache, WALLET_ADDRESS,
                              <<"github username already set", "enter wallet address">>)
            ELSE store_github_username(w, user_id, github_username))

\* Lines 550-623 of bot.py: the address is saved and the setup completed.
store_wallet_address(w, user_id, wallet_address) ==
    With(update_user_wallet(w.users, user_id, wallet_address),
         LAMBDA us :
            IF user_id \notin DOMAIN w.user_setup_state
            THEN Raises(us, w.user_setup_state, w.group_message_cache, "KeyError", <<>>)
            ELSE Returns(us, Del(w.user_setup_state, user_id),
                         Del(w.group_message_cache, user_id), END,
                         IF user_id \in DOMAIN w.group_message_cache
                         THEN <<"welcome back, to the group", "profile complete">>
                         ELSE <<"profile complete">>))

\* bot.py, save_wallet_address.
save_wallet_address(w, user_id, text) ==
    With(strip(text),
         LAMBDA wallet_address :
            IF has_wallet(w.users, user_id)
            THEN Returns(w.users, w.user_setup_state, w.group_message_cache, END,
                         <<"wallet address already set">>)
            ELSE IF ~eth_regex_match(wallet_address)
            THEN Returns(w.users, w.user_setup_state, w.group_message_cache, WALLET_ADDRESS,
                         <<"invalid wallet address format">>)
            ELSE store_wallet_address(w, user_id, wallet_address))

\* bot.py, cancel.
cancel(w, user_id) ==
    Returns(w.users, Del(w.user_setup_state, user_id), w.group_message_cache, END,
            <<"operation cancelled">>)

(***************************************************************************)
(* The specification of the dialogue: the updates Telegram delivers, each  *)
(* dispatched as main() registers the handlers (lines 1154-1186).  The     *)
(* ConversationHandler keeps one state per chat and user; the setup runs   *)
(* in the user's private chat, and the group chat never gets a state (the  *)
(* entry points return None there).  In a chat without a state an entry    *)
(* point handles the update and its return value becomes the state; in a   *)
(* chat with a state the handler of the state or the fallback does, and an *)
(* update they do not take goes to the handlers registered after the       *)
(* ConversationHandler, whose return value nobody reads.  A handler that   *)
(* raises leaves the state of the conversation as it was.                  *)
(***************************************************************************)
MaxFlowUsers == 1       \* accounts that talk to the bot

FlowUsers == 1..MaxFlowUsers

\* The texts a user sends.
Hex(c) == [i \in 1..AddressDigits |-> c]
Address(c) == <<"0", "x">> \o Hex(c)
GithubTexts == {<<" ", "o", "c", "t", "o", "\n">>, <<" ">>, NotAdded}
WalletTexts ==
    {Address("a"),
     Address("F") \o <<"\n">>,
     <<"0", "x">> \o SubSeq(Hex("a"), 1, AddressDigits - 1),
     Address("g")}
\* The texts a user sends in a state of the conversation: what the state
\* asks for, well formed or not.
Texts(state) == IF state = GITHUB_USERNAME THEN GithubTexts ELSE WalletTexts

SetupButtons == {"start_setup", "setup_github", "link_wallet"}

\* The bot's state, as the handlers read it.
World ==
    [users |-> users, user_setup_state |-> user_setup_state,
     group_message_cache |-> group_message_cache]

\* The user's private chat is in a state of the conversation.
InConversation(user_id) == user_id \in DOMAIN conversations

\* ConversationHandler.update_state, for the value a handler returned.
update_state(convs, user_id, out) ==
    IF out.raised # "none" \/ out.returned = ReturnsNone THEN convs
    ELSE IF out.returned = END THEN Del(convs, user_id)
    ELSE Put(convs, user_id, out.returned)

\* One update handled by `name`: `conversation` says whether the
\* ConversationHandler ran the handler.
Handle(name, user_id, conversation, out) ==
    /\ users' = out.users
    /\ user_setup_state' = out.user_setup_state
    /\ group_message_cache' = out.group_message_cache
    /\ conversations' = IF conversation THEN update_state(conversations, user_id, out)
                        ELSE conversations
    /\ handler' = [name |-> name, user_id |-> user_id,
                   returned |-> out.returned, raised |-> out.raised, replies |-> out.replies,
                   trace |-> <<>>, status |-> IF out.raised = "none" THEN "returned" ELSE "raised"]
    /\ UNCHANGED <<halves_up, events, failures, procs, user_data, module_weights, pc, locals>>

\* /start, in the private chat or in the group.
StartUpdate(user_id, private) ==
    \E out \in {start_command(World, user_id, private)} :
       Handle("start", user_id, ~(private /\ InConversation(user_id)), out)

\* /profile: an entry point and nothing else.
ProfileUpdate(user_id, private) ==
    /\ ~(private /\ InConversation(user_id))
    /\ \E out \in {profile_command(World, user_id, private)} :
          Handle("profile_command", user_id, TRUE, out)

\* /cancel: the fallback of the conversation.
CancelUpdate(user_id) ==
    /\ InConversation(user_id)
    /\ \E out \in {cancel(World, user_id)} : Handle("cancel", user_id, TRUE, out)

\* A button of the setup pressed in the private chat.
CallbackUpdate(user_id, data) ==
    \E out \in {button_callback(World, user_id, data)} :
       Handle("button_callback", user_id, ~InConversation(user_id), out)

\* A text message in the private chat.
TextUpdate(user_id, text) ==
    /\ InConversation(user_id)
    /\ text \in Texts(conversations[user_id])
    /\ \E out \in {IF conversations[user_id] = GITHUB_USERNAME
                   THEN save_github_username_text(World, user_id, text)
                   ELSE save_wallet_address(World, user_id, text)} :
          Handle(IF conversations[user_id] = GITHUB_USERNAME THEN "save_github_username"
                 ELSE "save_wallet_address",
                 user_id, TRUE, out)

FlowInit ==
    /\ user_data = <<>>
    /\ module_weights = [github |-> GITHUB_WEIGHTS, telegram |-> TELEGRAM_WEIGHTS]
    /\ pc = "input"
    /\ raised = "none"
    /\ github_raw_scores = <<>>
    /\ telegram_raw_scores = <<>>
    /\ nomination_scores = <<>>
    /\ github_norm = <<>>
    /\ telegram_norm = <<>>
    /\ nomination_norm = <<>>
    /\ builder_scores = <<>>
    /\ result = <<>>
    /\ users = <<>>
    /\ halves_up = FALSE
    /\ events = 0
    /\ failures = 0
    /\ handler = NoHandler
    /\ procs = [p \in ProcNames |-> Idle(0)]
    /\ conversations = EmptyDict
    /\ user_setup_state = EmptyDict
    /\ group_message_cache = EmptyDict

FlowNext ==
    \/ \E user_id \in FlowUsers, private \in BOOLEAN : StartUpdate(user_id, private)
    \/ \E user_id \in FlowUsers, private \in BOOLEAN : ProfileUpdate(user_id, private)
    \/ \E user_id \in FlowUsers : CancelUpdate(user_id)
    \/ \E user_id \in FlowUsers, data \in SetupButtons : CallbackUpdate(user_id, data)
    \/ \E user_id \in FlowUsers, text \in GithubTexts \cup WalletTexts :
          TextUpdate(user_id, text)

FlowSpec == FlowInit /\ [][FlowNext]_vars

(***************************************************************************)
(* Properties.                                                             *)
(***************************************************************************)
Called == pc # "input"
Returned == pc = "returned"
MaxScore == ScoreScale * RoundScale      \* 100.00 in hundredths

\* How many entries of s carry user_id id.
CountId(s, id) == Cardinality({i \in 1..Len(s) : s[i].user_id = id})

\* C1: a returned list has one result per input record, and every user_id
\* occurs in it as often as in the input (nothing dropped, nothing doubled).
C1_OneResultPerRecord ==
    Returned =>
        /\ Len(result) = Len(user_data)
        /\ \A i \in 1..Len(user_data) :
              CountId(result, user_data[i].user_id) = CountId(user_data, user_data[i].user_id)
        /\ \A k \in 1..Len(result) :
              \E i \in 1..Len(user_data) : user_data[i].user_id = result[k].user_id

\* A returned list over an input that holds one user_id twice and another once.
C1_Witness ==
    /\ Returned
    /\ Len(user_data) >= NORMALIZATION_THRESHOLD
    /\ \E i, j, k \in 1..Len(user_data) :
          /\ i # j
          /\ user_data[i].user_id = user_data[j].user_id
          /\ user_data[k].user_id # user_data[i].user_id

\* The counts of a dict of the record (none when the field is missing).
Counts(user, field) ==
    LET d == Get(user, field, EmptyDict)
    IN IF d = None THEN {} ELSE {d[k] : k \in DOMAIN d}

\* Every count and nominations_received of every record is a non-negative integer.
ValidCounts(ud) ==
    \A i \in 1..Len(ud) :
        /\ \A c \in Counts(ud[i], "github_contributions") : c >= 0
        /\ \A c \in Counts(ud[i], "telegram_activity") : c >= 0
        /\ Get(ud[i], "nominations_received", 0) >= 0

\* C2: over an input whose counts are non-negative, every returned
\* builder_score lies in [0, 100], whichever regime scored it.
C2_ScoreInRange ==
    (Returned /\ ValidCounts(user_data)) =>
        \A k \in 1..Len(result) :
            result[k].builder_score >= 0 /\ result[k].builder_score <= MaxScore

\* The absolute regime over valid counts, with a raw score past its reference
\* point (the clamp of lines 48-50 acts).
C2_Witness ==
    /\ Returned
    /\ ValidCounts(user_data)
    /\ Len(user_data) \in 1..(NORMALIZATION_THRESHOLD - 1)
    /\ \E i \in 1..Len(user_data) :
          /\ github_raw_scores[i] > MAX_EXPECTED_GITHUB
          /\ github_norm[i] = One
    /\ \E k \in 1..Len(result) : result[k].builder_score > 0

\* C3: the regime follows the number of records alone: fewer than
\* NORMALIZATION_THRESHOLD records (4 in particular) are scaled against the
\* reference points, NORMALIZATION_THRESHOLD records or more (5 in
\* particular) by min-max.
C3_RegimeByPopulation ==
    (Called /\ raised # "TypeError") =>
        /\ Len(user_data) < NORMALIZATION_THRESHOLD =>
              /\ github_norm = absolute_scores(github_raw_scores, MAX_EXPECTED_GITHUB)
              /\ telegram_norm = absolute_scores(telegram_raw_scores,
                                                 MAX_EXPECTED_TELEGRAM * TelegramScale)
              /\ nomination_norm = absolute_scores(nomination_scores, MAX_EXPECTED_NOMINATIONS)
        /\ Len(user_data) >= NORMALIZATION_THRESHOLD =>
              /\ github_norm = normalize_scores(github_raw_scores)
              /\ telegram_norm = normalize_scores(telegram_raw_scores)
              /\ nomination_norm = normalize_scores(nomination_scores)

\* Exactly NORMALIZATION_THRESHOLD records, scored by min-max where the two
\* regimes differ in value: the smallest raw score is positive, and maps to 0.
C3_Witness ==
    /\ Returned
    /\ Len(user_data) = NORMALIZATION_THRESHOLD
    /\ \E i \in 1..Len(user_data) :
          /\ github_raw_scores[i] > 0
          /\ github_norm[i][1] = 0

\* All entries of a list are equal.
Uniform(s) == \A i, j \in 1..Len(s) : s[i] = s[j]

\* C4: in the min-max regime a dimension in which all raw subscores are equal
\* (all zero included) normalizes to 1.0 for every user, and no division by
\* zero occurs (no normalized score has denominator 0).
C4_UniformIsOne ==
    (Called /\ raised # "TypeError" /\ Len(user_data) >= NORMALIZATION_THRESHOLD) =>
        /\ Uniform(github_raw_scores) => \A i \in 1..Len(github_norm) : github_norm[i] = One
        /\ Uniform(telegram_raw_scores) => \A i \in 1..Len(telegram_norm) : telegram_norm[i] = One
        /\ Uniform(nomination_scores) => \A i \in 1..Len(nomination_norm) : nomination_norm[i] = One
        /\ \A i \in 1..Len(user_data) :
              github_norm[i][2] # 0 /\ telegram_norm[i][2] # 0 /\ nomination_norm[i][2] # 0

\* The min-max regime over a population whose code subscores are all equal and
\* positive while another dimension is not uniform.
C4_Witness ==
    /\ Returned
    /\ Len(user_data) >= NORMALIZATION_THRESHOLD
    /\ Uniform(github_raw_scores)
    /\ github_raw_scores[1] > 0
    /\ ~Uniform(nomination_scores)
    /\ \A i \in 1..Len(github_norm) : github_norm[i] = One

\* C5: called on the empty list, compute_builder_scores returns the empty list
\* and raises nothing; normalize_scores of the empty list is the empty list.
C5_EmptyInput ==
    /\ (Called /\ user_data = <<>>) => (Returned /\ raised = "none" /\ result = <<>>)
    /\ normalize_scores(<<>>) = <<>>

\* The call on the empty list has returned.
C5_Witness == Called /\ user_data = <<>> /\ result = <<>>

\* The user_ids of the entries of s whose builder_score is v, in order.
IdsWithScore(s, v) ==
    LET HasScore(e) == e.builder_score = v
        hit == SelectSeq(s, HasScore)
    IN [k \in 1..Len(hit) |-> hit[k].user_id]

\* C6: the returned list is in non-increasing order of builder_score, and the
\* results of equal builder_score stand in the order their records have in
\* the input (entry i of the unsorted list belongs to record i).
C6_SortedStable ==
    Returned =>
        /\ \A j, k \in 1..Len(result) :
              j < k => result[j].builder_score >= result[k].builder_score
        /\ \A i \in 1..Len(user_data) : builder_scores[i].user_id = user_data[i].user_id
        /\ \A i \in 1..Len(builder_scores) :
              IdsWithScore(result, builder_scores[i].builder_score)
                 = IdsWithScore(builder_scores, builder_scores[i].builder_score)

\* Two users of equal score and a third of higher score that the input lists
\* after them.
C6_Witness ==
    /\ Returned
    /\ \E i, j, k \in 1..Len(builder_scores) :
          /\ i < j /\ j < k
          /\ builder_scores[i].builder_score = builder_scores[j].builder_score
          /\ builder_scores[i].user_id # builder_scores[j].user_id
          /\ builder_scores[k].builder_score > builder_scores[i].builder_score

\* A step of Call: the only action that moves pc from "input".
CallStep == pc = "input" /\ pc' # "input"

\* C8: a call leaves its argument (the list and every record in it) and the
\* module's weight tables as they were.
C8_InputUnchanged ==
    [][CallStep => (user_data' = user_data /\ module_weights' = module_weights)]_vars

\* A call has returned over a list holding a record without the optional
\* fields (the fields the function reads with a default).
C8_Witness ==
    /\ Returned
    /\ \E i \in 1..Len(user_data) : DOMAIN user_data[i] = {"user_id", "username"}
    /\ \E i \in 1..Len(user_data) : "github_contributions" \in DOMAIN user_data[i]

\* C9 (the claim as stated): a list of two records or more, a single one of
\* them malformed, still returns, with a result for each of the other records.
C9_NoBatchFailure ==
    (Called /\ Len(user_data) >= 2 /\ Cardinality(Malformed(user_data)) = 1) =>
        /\ Returned
        /\ \A i \in 1..Len(user_data) :
              i \notin Malformed(user_data) =>
                  \E k \in 1..Len(result) : result[k].user_id = user_data[i].user_id

\* A record with user_id and username and none of the three activity fields.
IsBare(user) == DOMAIN user = {"user_id", "username"}

\* C10: a record with user_id and username only gets the raw subscores 0, 0, 0
\* and is never the record an exception is raised on (a TypeError leaves the
\* raw lists one short of the raising record, a KeyError the unsorted list).
C10_BareRecordIsZero ==
    Called =>
        /\ \A i \in 1..Len(github_raw_scores) :
              IsBare(user_data[i]) =>
                  /\ github_raw_scores[i] = 0
                  /\ telegram_raw_scores[i] = 0
                  /\ nomination_scores[i] = 0
        /\ raised = "TypeError" => ~IsBare(user_data[Len(github_raw_scores) + 1])
        /\ raised = "KeyError" => ~IsBare(user_data[Len(builder_scores) + 1])
        /\ (\A i \in 1..Len(user_data) : IsBare(user_data[i])) => Returned

\* A call has returned over a list holding such a record beside an active one.
C10_Witness ==
    /\ Returned
    /\ \E i, j \in 1..Len(user_data) :
          /\ IsBare(user_data[i])
          /\ github_raw_scores[i] = 0 /\ telegram_raw_scores[i] = 0 /\ nomination_scores[i] = 0
          /\ github_raw_scores[j] > 0

(***************************************************************************)
(* Properties of the store and its handlers.                               *)
(***************************************************************************)
\* The positions of the trace at which a pass starts (its read).
Passes(trace) == {r \in 1..Len(trace) : trace[r].op = "read"}

\* The writes of the pass that starts at position r of the trace.
PassWrites(trace, r) ==
    {k \in (r + 1)..Len(trace) : \A j \in (r + 1)..k : trace[j].op = "write"}

\* The failed writes among them.
FailedWrites(trace, r) == {k \in PassWrites(trace, r) : ~trace[k].ok}

\* C11: in a pass of a handler, a write for every user that was read is
\* attempted even when the write for one of them fails.
C11_RemainingWritesAttempted ==
    \A r \in Passes(handler.trace) :
       FailedWrites(handler.trace, r) # {} =>
          Cardinality(PassWrites(handler.trace, r)) = handler.trace[r].value

\* The builder_score fields as stored, and as compute_builder_scores gives
\* them on the stored documents, by position in the collection.
stored_scores(us) == [i \in 1..Len(us) |-> us[i].builder_score]
computed_scores(us) ==
    With(compute_builder_scores(get_all_users(us, TRUE), RoundUp(us)),
         LAMBDA out : [i \in 1..Len(us) |-> out.builder_scores[i].builder_score])

\* The stored scores before a handler ran, for the collection it leaves (a
\* document it created was stored with builder_score 0).
scores_before(old, new) ==
    [i \in 1..Len(new) |-> IF i <= Len(old) THEN old[i].builder_score ELSE 0]

\* The score user_id had stored when position r of the trace was reached:
\* the last one written before r, or the one stored before the handler.
score_at(trace, r, user_id, before) ==
    LET ks == {k \in 1..(r - 1) :
                  trace[k].op = "write" /\ trace[k].ok /\ trace[k].user_id = user_id}
    IN IF ks = {} THEN before
       ELSE trace[CHOOSE k \in ks : \A j \in ks : j <= k].value

\* The last pass of the trace failed at a write, after it had given some
\* user a new score and before it reached a user whose score it would change.
PartiallyApplied(old, new, trace) ==
    \E r \in Passes(trace) :
       /\ \A q \in Passes(trace) : q <= r
       /\ FailedWrites(trace, r) # {}
       /\ \E k \in PassWrites(trace, r) :
             /\ trace[k].ok
             /\ \E i \in 1..Len(new) :
                   /\ new[i].user_id = trace[k].user_id
                   /\ trace[k].value # score_at(trace, r, new[i].user_id,
                                                 scores_before(old, new)[i])
       /\ \E j \in 1..Len(new) : stored_scores(new)[j] # computed_scores(new)[j]

\* C12: no handler returns with the ranking of a pass partially applied
\* (some users with the scores of the new pass, others with older ones).
C12_NoPartialRanking ==
    [][events' = events + 1 => ~PartiallyApplied(users, users', handler'.trace)]_vars

\* The increments of a trace, and the dimension an increment belongs to.
Increments(trace) == {k \in 1..Len(trace) : trace[k].op = "inc"}
Dimension(op) ==
    IF op.dict = "github_contributions" THEN "code"
    ELSE IF op.dict = "telegram_activity" THEN "chat"
    ELSE "nominations"

\* The last handler handled a qualifying event: a tracked group message, a
\* push, pull_request or issues webhook, or a /nominate that succeeded.
Qualifying ==
    \/ handler.name = "handle_group_message"
    \/ handler.name = "github_webhook" /\ handler.status # "ignored"
    \/ handler.name = "nominate_command" /\ handler.status \in {"returned", "raised"}

\* The pass that starts at position r read the users and wrote a score for
\* each of them.
FullPass(trace, r) ==
    /\ trace[r].ok
    /\ FailedWrites(trace, r) = {}
    /\ Cardinality(PassWrites(trace, r)) = trace[r].value

EndsWithFullPass(trace) ==
    \E r \in Passes(trace) :
       /\ FullPass(trace, r)
       /\ r + Cardinality(PassWrites(trace, r)) = Len(trace)

\* The trace is a full pass and nothing else.
OnlyFullPass(trace) == trace # <<>> /\ trace[1].op = "read" /\ FullPass(trace, 1)

\* C14: a handler that only runs the pass, right after a handler that ended
\* with a full pass, leaves every document (scores and counters) as it was.
C14_SecondPassChangesNothing ==
    [][(events' = events + 1 /\ EndsWithFullPass(handler.trace)
            /\ OnlyFullPass(handler'.trace)) => users' = users]_vars

\* A handler that only ran the pass, as the second event, over users with
\* scores that differ.
C14_Witness ==
    /\ events = 2
    /\ failures = 0
    /\ OnlyFullPass(handler.trace)
    /\ stored_scores(users) = computed_scores(users)
    /\ \E i, j \in 1..Len(users) :
          users[i].builder_score > users[j].builder_score /\ users[j].builder_score > 0

\* C15: between handlers, when no store operation has failed, every stored
\* builder_score is the one compute_builder_scores gives on the stored
\* documents.
C15_StoredIsComputed ==
    (failures = 0 /\ users # <<>>) => stored_scores(users) = computed_scores(users)

(***************************************************************************)
(* Properties of the subscores, the regimes and the composite.             *)
(***************************************************************************)
\* The github_contributions and telegram_activity of a record, as line 32
\* and line 33 read them.
Contributions(user) == Get(user, "github_contributions", EmptyDict)
Activity(user) == Get(user, "telegram_activity", EmptyDict)

\* C16: a raw subscore is the sum of count * weight over the keys that the
\* record's mapping and the weight table share: a key of the table that the
\* mapping lacks and a key of the mapping that the table lacks add 0, and
\* neither raises.
C16_SubscoreIsWeightedSum ==
    Called =>
        /\ \A i \in 1..Len(github_raw_scores) :
              github_raw_scores[i] =
                  Get(Contributions(user_data[i]), "commits", 0) * GITHUB_WEIGHTS.commits
                      + Get(Contributions(user_data[i]), "prs", 0) * GITHUB_WEIGHTS.prs
                      + Get(Contributions(user_data[i]), "issues", 0) * GITHUB_WEIGHTS.issues
        /\ \A i \in 1..Len(telegram_raw_scores) :
              telegram_raw_scores[i] =
                  Get(Activity(user_data[i]), "messages", 0) * TELEGRAM_WEIGHTS.messages
                      + Get(Activity(user_data[i]), "replies", 0) * TELEGRAM_WEIGHTS.replies
        /\ (\A i \in 1..Len(user_data) : ~RaisesTypeError(user_data[i])) =>
              Len(github_raw_scores) = Len(user_data) /\ Len(telegram_raw_scores) = Len(user_data)

\* A call that returned on a record with a key the weight table lacks and a
\* record that lacks keys of the weight table, both with a positive subscore.
C16_Witness ==
    /\ Returned
    /\ \E i, j \in 1..Len(user_data) :
          /\ "reviews" \in DOMAIN Contributions(user_data[i])
          /\ github_raw_scores[i] > 0
          /\ "commits" \notin DOMAIN Contributions(user_data[j])
          /\ "messages" \notin DOMAIN Activity(user_data[j])
          /\ github_raw_scores[j] > 0 /\ telegram_raw_scores[j] > 0

\* The fraction f is min(1.0, raw / reference).
IsClampedRatio(f, raw, reference) ==
    IF raw >= reference THEN f[1] = f[2]
    ELSE f[1] * reference = raw * f[2]

\* C17: with fewer users than the threshold, each normalized value is
\* min(1.0, raw / C) for C = 50 (code), 200 (chat) and 10 (nominations),
\* whatever the other users' subscores are; a raw code subscore of 21 gives
\* 0.42.
C17_AbsoluteRegime ==
    (Called /\ Len(user_data) < 5 /\ Len(github_norm) = Len(user_data)) =>
        /\ \A i \in 1..Len(user_data) :
              /\ IsClampedRatio(github_norm[i], github_raw_scores[i], 50)
              /\ IsClampedRatio(telegram_norm[i], telegram_raw_scores[i], 200 * TelegramScale)
              /\ IsClampedRatio(nomination_norm[i], nomination_scores[i], 10)
        /\ LET f == absolute_norm(21, MAX_EXPECTED_GITHUB)
           IN f[1] * 100 = 42 * f[2]

\* A call in the absolute regime with a code subscore under the reference,
\* one over it, and users whose subscores differ in every dimension.
C17_Witness ==
    /\ Returned
    /\ Len(user_data) < 5
    /\ \E i, j, k \in 1..Len(user_data) :
          /\ github_raw_scores[i] > 0 /\ github_raw_scores[i] < 50
          /\ github_norm[i][1] > 0 /\ github_norm[i] # One
          /\ github_raw_scores[j] > 50 /\ github_norm[j] = One
          /\ telegram_raw_scores[k] > 0 /\ telegram_norm[k] # One
          /\ nomination_scores[i] > 10 /\ nomination_norm[i] = One

\* The list f of fractions is the min-max scaling of the list s, index by
\* index: (s[i] - min) / (max - min), within [0, 1], 0 at the minimum and
\* 1 at the maximum.
IsMinMaxScaling(f, s) ==
    /\ Len(f) = Len(s)
    /\ \A lo, hi \in 1..Len(s) :
          (\A k \in 1..Len(s) : s[lo] <= s[k] /\ s[k] <= s[hi]) =>
              \A i \in 1..Len(s) :
                 /\ f[i][2] > 0
                 /\ f[i][1] * (s[hi] - s[lo]) = (s[i] - s[lo]) * f[i][2]
                 /\ 0 <= f[i][1] /\ f[i][1] <= f[i][2]
                 /\ s[i] = s[lo] => f[i][1] = 0
                 /\ s[i] = s[hi] => f[i][1] = f[i][2]

\* C18: with at least as many users as the threshold, a dimension whose
\* subscores are not all equal is scaled by s -> (s - min) / (max - min):
\* same length and order, values within [0, 1], 0 for the holder of the
\* minimum and 1 for the holder of the maximum.
C18_MinMaxRegime ==
    (Called /\ Len(user_data) >= 5 /\ Len(github_norm) = Len(user_data)) =>
        /\ ~Uniform(github_raw_scores) => IsMinMaxScaling(github_norm, github_raw_scores)
        /\ ~Uniform(telegram_raw_scores) => IsMinMaxScaling(telegram_norm, telegram_raw_scores)
        /\ ~Uniform(nomination_scores) => IsMinMaxScaling(nomination_norm, nomination_scores)

\* A call in the min-max regime with three different code subscores, and
\* chat and nomination subscores that differ too.
C18_Witness ==
    /\ Returned
    /\ Len(user_data) >= 5
    /\ \E i, j, k \in 1..Len(user_data) :
          /\ github_raw_scores[i] < github_raw_scores[j]
          /\ github_raw_scores[j] < github_raw_scores[k]
          /\ github_norm[i] = <<0, github_raw_scores[k] - github_raw_scores[i]>>
          /\ github_norm[j][1] > 0 /\ github_norm[j][1] < github_norm[j][2]
          /\ github_norm[k][1] = github_norm[k][2]
    /\ ~Uniform(telegram_raw_scores)
    /\ ~Uniform(nomination_scores)

RECURSIVE Gcd(_, _)
Gcd(a, b) == IF b = 0 THEN a ELSE Gcd(b, a % b)
Lcm(a, b) == (a \div Gcd(a, b)) * b

\* s hundredths is (0.6 * g + 0.3 * t + 0.1 * n) * 100 rounded to two
\* decimals, for fractions g, t, n: s is within half a hundredth of it.
IsRoundedComposite(s, g, t, n) ==
    LET den == Lcm(Lcm(g[2], t[2]), n[2])
        exact == 1000 * (6 * g[1] * (den \div g[2]) + 3 * t[1] * (den \div t[2])
                            + 1 * n[1] * (den \div n[2]))
        diff == s * den - exact
    IN 2 * diff <= den /\ 2 * diff >= 0 - den

\* C19: each builder_score is round((W_G * g + W_T * t + W_N * n) * 100, 2)
\* of the user's normalized scores, with weights 0.6, 0.3 and 0.1 that sum
\* to 1.0: exactly 100 when all three are 1.0 and exactly 0 when all three
\* are 0.
C19_CompositeScore ==
    /\ W_G = 6 /\ W_T = 3 /\ W_N = 1 /\ WeightScale = 10
    /\ W_G + W_T + W_N = WeightScale
    /\ \A i \in 1..Len(builder_scores) :
          LET s == builder_scores[i].builder_score
              g == github_norm[i]
              t == telegram_norm[i]
              n == nomination_norm[i]
          IN /\ IsRoundedComposite(s, g, t, n)
             /\ (g[1] = g[2] /\ t[1] = t[2] /\ n[1] = n[2]) => s = 100 * RoundScale
             /\ (g[1] = 0 /\ t[1] = 0 /\ n[1] = 0) => s = 0

\* A returned list with a user at 1.0 in every dimension (score 100), one at
\* 0 in every dimension (score 0) and one in between.
C19_Witness ==
    /\ Returned
    /\ \E i, j, k \in 1..Len(builder_scores) :
          /\ github_norm[i][1] = github_norm[i][2]
          /\ telegram_norm[i][1] = telegram_norm[i][2]
          /\ nomination_norm[i][1] = nomination_norm[i][2]
          /\ builder_scores[i].builder_score = 10000
          /\ github_norm[j][1] = 0 /\ telegram_norm[j][1] = 0 /\ nomination_norm[j][1] = 0
          /\ builder_scores[j].builder_score = 0
          /\ builder_scores[k].builder_score > 0
          /\ builder_scores[k].builder_score < 10000
          /\ builder_scores[k].builder_score % 100 # 0

\* The raw code subscore of the user an entry of the result belongs to.
RawCodeOf(entry) ==
    github_raw_scores[CHOOSE i \in 1..Len(user_data) : user_data[i].user_id = entry.user_id]

\* The result lists the users by raw code subscore, largest first.
ByCodeDescending ==
    \A k, l \in 1..Len(result) : k < l => RawCodeOf(result[k]) >= RawCodeOf(result[l])

\* The code subscores 10, 20, 30, 40, 50, 60 give scores 12 apart.
SixPeersExample ==
    (Len(user_data) = 6 /\ {github_raw_scores[i] : i \in 1..6} = {10, 20, 30, 40, 50, 60}) =>
        \A k \in 1..5 : result[k].builder_score - result[k + 1].builder_score = 12 * RoundScale

\* A call returned in the min-max regime on users whose chat and nomination
\* subscores are identical.
CodeOnlyCase ==
    /\ Returned
    /\ Len(user_data) >= 5
    /\ Uniform(telegram_raw_scores)
    /\ Uniform(nomination_scores)

DimensionFields == {"github_contributions", "telegram_activity", "nominations_received"}

\* ud with every dimension but `field` taken out of every record: the list
\* that all lists differing from ud in the other dimensions only have in
\* common.
OnlyDimension(ud, field) ==
    [i \in 1..Len(ud) |->
        [k \in DOMAIN ud[i] \ (DimensionFields \ {field}) |-> ud[i][k]]]

\* The normalized lists of a call on ud whose first loop finishes.
NormOf(ud) == normalize(first_loop(ud, 0), Len(ud))

\* C21: the normalized scores of a dimension are those of the call on the
\* list that keeps this dimension only; so two lists of the same length that
\* differ in the other dimensions only get the same normalized scores in this
\* dimension, user by user.
C21_DimensionsIndependent ==
    (Called /\ raised # "TypeError") =>
        /\ github_norm = NormOf(OnlyDimension(user_data, "github_contributions")).github
        /\ telegram_norm = NormOf(OnlyDimension(user_data, "telegram_activity")).telegram
        /\ nomination_norm = NormOf(OnlyDimension(user_data, "nominations_received")).nomination

\* A returned call in the min-max regime where the code scores differ and
\* the other two dimensions are not all zero.
C21_Witness ==
    /\ Returned
    /\ UseNormalization(Len(user_data))
    /\ \E i, j \in 1..Len(user_data) :
          /\ github_norm[i] # github_norm[j]
          /\ telegram_raw_scores[i] > 0
          /\ nomination_scores[j] > 0
    /\ OnlyDimension(user_data, "github_contributions") # user_data

\* C22: the raw nomination subscore of a record is its nominations_received
\* times NOMINATION_WEIGHT, which is 3, whatever the regime and however large;
\* a record with zero nominations or without the field gets 0.
C22_RawNominationSubscore ==
    Called =>
        /\ NOMINATION_WEIGHT = 3
        /\ \A i \in 1..Len(nomination_scores) :
              /\ nomination_scores[i]
                    = Get(user_data[i], "nominations_received", 0) * NOMINATION_WEIGHT
              /\ "nominations_received" \notin DOMAIN user_data[i] => nomination_scores[i] = 0
              /\ Get(user_data[i], "nominations_received", 0) = 0 => nomination_scores[i] = 0

\* A call over a record whose raw nomination subscore passes
\* MAX_EXPECTED_NOMINATIONS, a record with zero nominations and a record
\* without the field.
C22_Witness ==
    /\ Called
    /\ \E i, j, k \in 1..Len(nomination_scores) :
          /\ nomination_scores[i] > MAX_EXPECTED_NOMINATIONS
          /\ "nominations_received" \in DOMAIN user_data[j]
          /\ user_data[j].nominations_received = 0
          /\ nomination_scores[j] = 0
          /\ "nominations_received" \notin DOMAIN user_data[k]
          /\ nomination_scores[k] = 0

\* Both processes are between handlers and at least one handler has run.
AllPassesCompleted ==
    /\ \A p \in ProcNames : procs[p].pc = "idle"
    /\ \E p \in ProcNames : procs[p].runs > 0

\* C23: when the passes of the two processes interleave, then once all of
\* them have completed every stored builder_score is the score computed from
\* the counters as they are stored then.
C23_FinalScoresCurrent ==
    AllPassesCompleted => stored_scores(users) = computed_scores(users)

\* The users whose nominations_given list contains this username.
Nominators(us, username) ==
    {i \in 1..Len(us) : InList(username, us[i].nominations_given)}

\* C24: after any sequence of add_nomination calls on freshly created
\* users, nominations_received of every user is the number of users whose
\* nominations_given contains the user's username.
C24_ReceivedMatchesGiven ==
    \A u \in 1..Len(users) :
        users[u].nominations_received = Cardinality(Nominators(users, users[u].username))

\* How often x occurs in the list s.
Occurrences(x, s) == Cardinality({k \in 1..Len(s) : s[k] = x})

\* No nominations_given list holds its owner's username or a username twice.
NoSelfNoRepeat ==
    \A u \in 1..Len(users) :
        /\ ~InList(users[u].username, users[u].nominations_given)
        /\ \A k \in 1..Len(users[u].nominations_given) :
              Occurrences(users[u].nominations_given[k], users[u].nominations_given) = 1

\* A step that is one call of add_nomination.
AddNominationStep == events' = events + 1 /\ handler'.name = "add_nomination"

\* What the call of this step must refuse: an unknown nominator, an unknown
\* nominee, the nominator's own username, a username the nominator has
\* nominated before.
MustRefuse ==
    LET nominator == get_user(users, handler'.nominator_id)
        nominee_username == handler'.nominee_username
    IN \/ nominator = 0
       \/ find_one(users, "username", nominee_username) = 0
       \/ users[nominator].username = nominee_username
       \/ InList(nominee_username, users[nominator].nominations_given)

\* C25: no nominations_given list ever holds its owner's username or a
\* username twice, and a call of add_nomination that is a self-nomination, a
\* repeated nomination or names an unknown nominator or nominee returns
\* status "error" and leaves every user record as it was.
C25_NoSelfNoRepeat ==
    /\ []NoSelfNoRepeat
    /\ [][(AddNominationStep /\ MustRefuse) => (handler'.status = "error" /\ users' = users)]_vars

\* The field f of the document of user_id, None when there is no document.
Field(us, user_id, f) ==
    IF get_user(us, user_id) = 0 THEN None ELSE us[get_user(us, user_id)][f]

\* Every stored wallet_address is 0x followed by 40 hexadecimal characters.
WalletsWellFormed ==
    \A u \in 1..Len(users) :
        users[u].wallet_address # None => IsAddress(users[u].wallet_address.str)

\* A step leaves every non-empty github_username and wallet_address as it is.
LinkedKept ==
    \A u \in 1..Len(users) : \A f \in {"github_username", "wallet_address"} :
        Truthy(users[u][f]) =>
            /\ u <= Len(users')
            /\ users'[u].user_id = users[u].user_id
            /\ users'[u][f] = users[u][f]

\* C26: linked identities are write-once: no command, button or message of
\* the dialogue changes a stored github_username or wallet_address that is
\* non-empty, and every stored wallet_address is 0x followed by 40
\* hexadecimal characters.
C26_WriteOnce == []WalletsWellFormed /\ [][LinkedKept]_vars

\* A user whose stored address came from a message that ended in a newline
\* sends another address and is told that the address is already set.
C26_Witness ==
    /\ handler.name = "save_wallet_address"
    /\ handler.replies = <<"wallet address already set">>
    /\ Field(users, handler.user_id, "wallet_address") = Str(Address("F"))
    /\ Truthy(Field(users, handler.user_id, "github_username"))

\* The conversation of user_id is in the WALLET_ADDRESS state, no address is
\* stored for the user, and the user sends `text`, a valid address.
SendsValidAddress(user_id, text) ==
    /\ InConversation(user_id)
    /\ conversations[user_id] = WALLET_ADDRESS
    /\ ~Truthy(Field(users, user_id, "wallet_address"))
    /\ IsAddress(strip(text))
    /\ TextUpdate(user_id, text)

\* C27: whenever the conversation is in the WALLET_ADDRESS state for a user
\* with no address stored and the user sends a valid address,
\* save_wallet_address stores it, returns ConversationHandler.END, which
\* ends the conversation, and leaves no entry of the user in
\* user_setup_state, however the state was entered.
C27_ValidAddressCompletes ==
    [][\A user_id \in FlowUsers, text \in WalletTexts :
          SendsValidAddress(user_id, text) =>
              /\ Field(users', user_id, "wallet_address") = Str(strip(text))
              /\ handler'.returned = END
              /\ handler'.raised = "none"
              /\ user_id \notin DOMAIN conversations'
              /\ user_id \notin DOMAIN user_setup_state']_vars

\* The store knows user_id, the user's github_username or wallet_address is
\* unset, and the user sends /profile in the private chat.
ProfileOfIncomplete(user_id) ==
    /\ get_user(users, user_id) # 0
    /\ \/ ~Truthy(Field(users, user_id, "github_username"))
       \/ ~Truthy(Field(users, user_id, "wallet_address"))
    /\ ProfileUpdate(user_id, TRUE)

\* C30: /profile in the private chat of an existing user whose
\* github_username or wallet_address is unset never raises: it replies with
\* the profile marked incomplete and starts the setup, returning
\* GITHUB_USERNAME when the GitHub username is unset and WALLET_ADDRESS
\* otherwise.
C30_ProfileStartsSetup ==
    [][\A user_id \in FlowUsers :
          ProfileOfIncomplete(user_id) =>
              /\ handler'.raised = "none"
              /\ handler'.replies # <<>>
              /\ handler'.replies[1] = "profile, incomplete"
              /\ handler'.returned =
                    IF ~Truthy(Field(users, user_id, "github_username"))
                    THEN GITHUB_USERNAME ELSE WALLET_ADDRESS]_vars

(***************************************************************************)
(* The endpoint /github_webhook as a whole (webhooks.py, lines 345-413):   *)
(* the signature check, the event, the Telegram delivery, and the except   *)
(* clause that turns whatever the try block raised into the answer.        *)
(***************************************************************************)
\* The secret of line 21, and a key that is not the secret.
GITHUB_WEBHOOK_SECRET == "secret"
OtherKey == "other key"

\* hmac.new(key, body, hashlib.sha256).hexdigest(): a digest that tells
\* every key and every body apart.
hexdigest(key, body) == <<key, body>>

\* A header value "sha256=" + digest.
Sha256Header(digest) == Str(<<"sha256=">> \o digest)

\* A signature check that accepts every header.
accepts_any_signature(signature, body) == TRUE

\* webhooks.py, verify_github_signature, with the secret configured.
verify_github_signature(signature, body) ==
    signature = Sha256Header(hexdigest(GITHUB_WEBHOOK_SECRET, body))

\* What the try block leaves when it returns {"status": status}.
TryReturns(us, trace, sent, status) ==
    [users |-> us, trace |-> trace, sent |-> sent, raised |-> "none", returned |-> status]

\* What the try block leaves when `exception` is raised in it.
TryRaises(us, trace, sent, exception) ==
    [users |-> us, trace |-> trace, sent |-> sent, raised |-> exception, returned |-> "none"]

\* Lines 399-410: the message of the event is delivered, or there is none.
deliver(p, request) ==
    IF request.event # "push" /\ ~request.body.formats
    THEN TryReturns(p.users, p.trace, <<>>, "ignored")
    ELSE IF ~request.delivered
    THEN TryRaises(p.users, p.trace, <<request.event>>, "HTTPException 500")
    ELSE TryReturns(p.users, p.trace, <<request.event>>, "success")

\* Lines 347-410: the try block.
try_block(us, request, fault) ==
    IF ~Truthy(request.signature) \/ ~verify_github_signature(request.signature, request.body)
    THEN TryRaises(us, <<>>, <<>>, "HTTPException 403")
    ELSE With(github_webhook(us, request.event, request.body, fault),
              LAMBDA p :
                 IF p.status = "ignored" THEN TryReturns(p.users, p.trace, <<>>, "ignored")
                 ELSE IF p.status = "400" THEN TryRaises(p.users, p.trace, <<>>, "Exception")
                 ELSE deliver(p, request))

\* Lines 345-413: the answer to a request, `except Exception` included.
answer(us, request, fault) ==
    With(try_block(us, request, fault),
         LAMBDA t : [users |-> t.users, trace |-> t.trace, sent |-> t.sent,
                     raised |-> t.raised, returned |-> t.returned,
                     status_code |-> IF t.raised = "none" THEN "200" ELSE "400"])

MaxWebUsers == 2        \* accounts in the store, the first with a GitHub login
MaxPosts == 2           \* requests answered

EventNames == {"push", "pull_request", "issues", "ping"}

\* The payloads of a request, by event: those of Payloads, and for a pull
\* request or an issue each one such that handle_pull_request or
\* handle_issues_event formats a message from it or such that it returns None.
Bodies(event) ==
    {[commits |-> p.commits, action |-> p.action, login |-> p.login, formats |-> f] :
        p \in Payloads(event),
        f \in IF event \in {"pull_request", "issues"} THEN BOOLEAN ELSE {TRUE}}

\* A body that is not this one.
AnotherBody(body) == CHOOSE other \in UNION {Bodies(e) : e \in EventNames} : other # body

\* The X-Hub-Signature-256 headers of a request with this body: none, an
\* empty one, the right one, the digest without its prefix, the digest under
\* another key, the digest of another body.
Signatures(body) ==
    {None, Str(<<>>),
     Sha256Header(hexdigest(GITHUB_WEBHOOK_SECRET, body)),
     Str(hexdigest(GITHUB_WEBHOOK_SECRET, body)),
     Sha256Header(hexdigest(OtherKey, body)),
     Sha256Header(hexdigest(GITHUB_WEBHOOK_SECRET, AnotherBody(body)))}

WebInit ==
    /\ user_data = <<>>
    /\ module_weights = [github |-> GITHUB_WEIGHTS, telegram |-> TELEGRAM_WEIGHTS]
    /\ pc = "input"
    /\ raised = "none"
    /\ github_raw_scores = <<>>
    /\ telegram_raw_scores = <<>>
    /\ nomination_scores = <<>>
    /\ github_norm = <<>>
    /\ telegram_norm = <<>>
    /\ nomination_norm = <<>>
    /\ builder_scores = <<>>
    /\ result = <<>>
    /\ \E n \in 1..MaxWebUsers : users = Linked(n)
    /\ halves_up \in BOOLEAN
    /\ events = 0
    /\ failures = 0
    /\ handler = NoHandler
    /\ procs = [p \in ProcNames |-> Idle(0)]
    /\ conversations = EmptyDict
    /\ user_setup_state = EmptyDict
    /\ group_message_cache = EmptyDict

\* One request answered.
Post(request, out) ==
    /\ failures + Cardinality(FailedOps(out.trace)) <= MaxFailures
    /\ users' = out.users
    /\ handler' = [name |-> "github_webhook", trace |-> out.trace, status |-> out.status_code,
                   request |-> request, sent |-> out.sent, raised |-> out.raised,
                   returned |-> out.returned]
    /\ events' = events + 1
    /\ failures' = failures + Cardinality(FailedOps(out.trace))
    /\ UNCHANGED <<halves_up, procs, dialogue, user_data, module_weights, pc, locals>>

\* The header of the request is the HMAC-SHA256 of its body under the secret.
Genuine(request) ==
    request.signature = Sha256Header(hexdigest(GITHUB_WEBHOOK_SECRET, request.body))

\* What the store may do while the request is handled: it is not reached
\* unless the handler gets past line 351.
StoreFaults(request) ==
    IF Genuine(request) THEN PassFaults(Len(users)) ELSE {NoFault}

\* A POST to /github_webhook.
PostWebhook ==
    /\ events < MaxPosts
    /\ \E event \in EventNames, delivered \in BOOLEAN :
          \E body \in Bodies(event) :
             \E signature \in Signatures(body) :
                \E request \in {[event |-> event, body |-> body, signature |-> signature,
                                 delivered |-> delivered]} :
                   \E fault \in StoreFaults(request) :
                      \E out \in {answer(users, request, fault)} : Post(request, out)

WebNext == PostWebhook

WebSpec == WebInit /\ [][WebNext]_vars

\* A step that answers one request.
PostStep == handler'.name = "github_webhook" /\ events' = events + 1

\* C28: a request whose X-Hub-Signature-256 header is missing or is not the
\* HMAC-SHA256 of the body under the secret changes no stored counter and no
\* stored builder_score and sends no Telegram message, whatever its event
\* and payload.
C28_UnsignedChangesNothing ==
    [][(PostStep /\ ~Genuine(handler'.request))
          => (users' = users /\ handler'.sent = <<>> /\ handler'.trace = <<>>)]_vars

\* A pull request opened by a stored login, which Telegram would have taken,
\* was refused: its header is the signature of another body.
C28_Witness ==
    /\ handler.name = "github_webhook"
    /\ handler.request.event = "pull_request"
    /\ handler.request.body.action = "opened"
    /\ handler.request.body.formats
    /\ handler.request.delivered
    /\ get_user_by_github_username(users, handler.request.body.login) # 0
    /\ Truthy(handler.request.signature)
    /\ handler.request.signature # Sha256Header(hexdigest(OtherKey, handler.request.body))
    /\ handler.request.signature # Str(hexdigest(GITHUB_WEBHOOK_SECRET, handler.request.body))
    /\ ~Genuine(handler.request)
    /\ handler.sent = <<>>
    /\ handler.raised = "HTTPException 403"

\* C29: the status of the answer reflects the failure: 403 for a missing or
\* invalid signature, 500 for a failed Telegram delivery, and 400 only for
\* another exception raised while the request is handled.
C29_StatusReflectsFailure ==
    handler.name = "github_webhook" =>
        /\ handler.raised = "HTTPException 403" => handler.status = "403"
        /\ handler.raised = "HTTPException 500" => handler.status = "500"
        /\ handler.status = "400" => handler.raised = "Exception"

=============================================================================
